---- MODULE Spec2Model ----
(***************************************************************************)
(* A model of the order-taking Lambda of kchenfs/TableAI                   *)
(* (lambda_container_project/app.py): the catalog cache, the menu          *)
(* resolver, the option helpers and the per-turn dialog state machine.     *)
(*                                                                         *)
(* Strings are sequences of tokens.  A token is a maximal run of           *)
(* non-whitespace characters, written as its lower-case spelling plus a    *)
(* flag saying whether the original holds upper-case letters, or one       *)
(* whitespace character.  Substring tests are made on whole tokens.        *)
(***************************************************************************)
EXTENDS Integers, Sequences, FiniteSets, TLC

VARIABLES
    session_attrs,          \* sessionAttributes the host holds (string map)
    slots,                  \* slots of the intent the host holds
    response,               \* what the last invocation returned
    trace,                  \* blocks of handle_dialog the last turn went through
    menu_raw,               \* _menu_raw
    menu_lookup,            \* _menu_lookup
    menu_embeddings_cache,  \* _menu_embeddings_cache
    menu_cache_timestamp,   \* _menu_cache_timestamp
    now,                    \* the clock time.time() reads
    inbound,                \* the last event and what the collaborators answered
    beverage_turn,          \* history: a drink turn was processed since the last reset
    call                    \* the last direct call of get_menu or _fuzzy_find

vars == <<session_attrs, slots, response, trace, menu_raw, menu_lookup,
          menu_embeddings_cache, menu_cache_timestamp, now, inbound, beverage_turn,
          call>>

cacheVars == <<menu_raw, menu_lookup, menu_embeddings_cache, menu_cache_timestamp>>

\* ---------------------------------------------------------------- bounds

\* longest OrderDocument a turn may build (the code has no limit)
MaxItems == 2
\* last clock value
MaxTime == 3601
\* last clock value when get_menu is called on its own
MaxClock == 7300
\* longest string, in tokens, the normalizer is applied to
MaxLen == 5

\* ------------------------------------------------------- python values

\* Python's None where a string is expected
None == <<[w |-> "None", cap |-> FALSE, none |-> TRUE]>>

NoneVal == [none |-> TRUE]
Some(v) == [none |-> FALSE, v |-> v]

W(word) == [w |-> word, cap |-> FALSE]
Cap(word) == [w |-> word, cap |-> TRUE]
SP == [w |-> " ", cap |-> FALSE]
TAB == [w |-> "\t", cap |-> FALSE]

IsSpace(tok) == tok.w \in {" ", "\t"}
IsStr(s) == s # None

\* truth value of a string-or-None
Truthy(s) == s # None /\ s # <<>>

\* dict as a function over the keys it holds
EmptyMap == [k \in {} |-> None]
Has(m, k) == k \in DOMAIN m
Get(m, k, default) == IF k \in DOMAIN m THEN m[k] ELSE default
Put(m, k, v) == [x \in DOMAIN m \cup {k} |-> IF x = k THEN v ELSE m[x]]
Pop(m, k) == [x \in DOMAIN m \ {k} |-> m[x]]

\* F(v), with v computed once
With(v, F(_)) == CHOOSE y \in {F(x) : x \in {v}} : TRUE

\* ------------------------------------------------------------ normalizer

\* a strip that takes one leading whitespace character only
LStrip_one(s) == IF s # <<>> /\ IsSpace(Head(s)) THEN Tail(s) ELSE s

RECURSIVE LStrip(_)
LStrip(s) == IF s # <<>> /\ IsSpace(Head(s)) THEN LStrip(Tail(s)) ELSE s

RECURSIVE RStrip(_)
RStrip(s) ==
    IF s # <<>> /\ IsSpace(s[Len(s)]) THEN RStrip(SubSeq(s, 1, Len(s) - 1)) ELSE s

Lower(s) == [i \in 1..Len(s) |-> [s[i] EXCEPT !.cap = FALSE]]

\* re.sub(r'\s+', ' ', s): every run of whitespace becomes one space
RECURSIVE CollapseWs(_)
CollapseWs(s) ==
    IF s = <<>> THEN <<>>
    ELSE IF IsSpace(Head(s)) THEN <<SP>> \o CollapseWs(LStrip(s))
    ELSE <<Head(s)>> \o CollapseWs(Tail(s))

normalize_name(s) == IF ~IsStr(s) THEN <<>> ELSE CollapseWs(Lower(RStrip(LStrip(s))))

\* str.split(): the whitespace-separated words
RECURSIVE Split(_)
Split(s) ==
    IF s = <<>> THEN <<>>
    ELSE IF IsSpace(Head(s)) THEN Split(Tail(s))
    ELSE <<Head(s)>> \o Split(Tail(s))

\* a in b for strings, on tokens
Contains(b, a) ==
    \E i \in 0..(Len(b) - Len(a)) : SubSeq(b, i + 1, i + Len(a)) = a

\* ---------------------------------------------------------- catalog store

\* rows of the menu table, as menu_table.scan() returns them
StoreItems ==
    << [ItemName |-> <<Cap("roll")>>, Category |-> <<Cap("food")>>,
        Price |-> [dec |-> TRUE, n |-> 9], ItemNumber |-> [dec |-> TRUE, n |-> 1],
        Options |-> <<>>, ItemEmbedding |-> Some(<<1, 0, 0>>)],
       [ItemName |-> <<Cap("gyoza")>>, Category |-> <<Cap("food")>>,
        Price |-> [dec |-> TRUE, n |-> 6], ItemNumber |-> [dec |-> TRUE, n |-> 2],
        Options |-> << [name |-> <<Cap("sauce")>>, required |-> FALSE,
                        items |-> <<[name |-> <<Cap("soy")>>]>>],
                       [name |-> <<Cap("protein")>>, required |-> TRUE,
                        items |-> <<[name |-> <<Cap("beef")>>],
                                    [name |-> <<Cap("vegetable")>>]>>],
                       [name |-> <<Cap("style")>>, required |-> TRUE,
                        items |-> <<[name |-> <<Cap("fried")>>],
                                    [name |-> <<Cap("steamed")>>]>>] >>,
        ItemEmbedding |-> Some(<<0, 1, 0>>)],
       [ItemName |-> <<Cap("coke")>>, Category |-> <<Cap("drink")>>,
        Price |-> [dec |-> TRUE, n |-> 2], ItemNumber |-> [dec |-> TRUE, n |-> 3],
        Options |-> <<>>, ItemEmbedding |-> Some(<<0, 0, 1>>)] >>

\* ------------------------------------------------------------ menu lookup

RECURSIVE ChoiceNames(_)
ChoiceNames(items_list) ==
    IF items_list = <<>> THEN <<>>
    ELSE LET choice_name_raw == Head(items_list).name
         IN  (IF Truthy(choice_name_raw) THEN <<normalize_name(choice_name_raw)>> ELSE <<>>)
             \o ChoiceNames(Tail(items_list))

\* options_struct[opt_name] = meta: a dict keeps the place of a key it already holds
SetOption(options_struct, meta) ==
    IF \E i \in 1..Len(options_struct) : options_struct[i].key = meta.key
    THEN [i \in 1..Len(options_struct) |->
             IF options_struct[i].key = meta.key THEN meta ELSE options_struct[i]]
    ELSE Append(options_struct, meta)

RECURSIVE OptionsStruct(_, _)
OptionsStruct(raw_options_list, acc) ==
    IF raw_options_list = <<>> THEN acc
    ELSE LET opt == Head(raw_options_list)
             meta == [key |-> normalize_name(opt.name), raw_name |-> opt.name,
                      choices |-> ChoiceNames(opt.items), required |-> opt.required]
         IN  OptionsStruct(Tail(raw_options_list),
                           IF Truthy(opt.name) THEN SetOption(acc, meta) ELSE acc)

MenuEntry(item) ==
    [raw_item |-> item, normalized_name |-> normalize_name(item.ItemName),
     options |-> OptionsStruct(item.Options, <<>>), category |-> item.Category,
     price |-> item.Price, item_number |-> item.ItemNumber]

RECURSIVE build_menu_lookup_from(_, _)
build_menu_lookup_from(items, lookup) ==
    IF items = <<>> THEN lookup
    ELSE LET item == Head(items)
         IN  build_menu_lookup_from(Tail(items),
                 IF Truthy(item.ItemName)
                 THEN Put(lookup, normalize_name(item.ItemName), MenuEntry(item))
                 ELSE lookup)

build_menu_lookup(items) == build_menu_lookup_from(items, [k \in {} |-> MenuEntry(Head(StoreItems))])

RECURSIVE BuildEmbeddings(_)
BuildEmbeddings(items) ==
    IF items = <<>> THEN <<>>
    ELSE LET item == Head(items)
         IN  (IF ~item.ItemEmbedding.none /\ item.ItemEmbedding.v # <<>>
              THEN <<[normalized_key |-> normalize_name(item.ItemName),
                      embedding |-> item.ItemEmbedding.v]>>
              ELSE <<>>) \o BuildEmbeddings(Tail(items))

\* an ItemEmbedding list with an element float() does not take
NotNumeric(v) == [none |-> FALSE, v |-> v, bad |-> TRUE]

\* np.array([float(x) for x in embedding_value]) raises for some row
EmbeddingsRaise(items) ==
    \E i \in 1..Len(items) :
        /\ ~items[i].ItemEmbedding.none /\ items[i].ItemEmbedding.v # <<>>
        /\ "bad" \in DOMAIN items[i].ItemEmbedding

\* ---------------------------------------------------------- catalog cache

menu_cache_ttl_seconds == 3600

Cache == [raw |-> menu_raw, lookup |-> menu_lookup,
          emb |-> menu_embeddings_cache, ts |-> menu_cache_timestamp]

\* a cache that expires one second early
NeedsRefresh_early(cache, force_refresh, t) ==
    force_refresh \/ cache.raw.none \/ (t - cache.ts) >= menu_cache_ttl_seconds

NeedsRefresh(cache, force_refresh, t) ==
    force_refresh \/ cache.raw.none \/ (t - cache.ts) > menu_cache_ttl_seconds

\* a refresh that empties the cache before it reads
get_menu_clears(cache, force_refresh, t, scan) ==
    IF NeedsRefresh(cache, force_refresh, t)
    THEN IF ~scan.ok
         THEN [cache |-> [raw |-> NoneVal, lookup |-> NoneVal, emb |-> NoneVal, ts |-> 0],
               raised |-> TRUE, read |-> TRUE]
         ELSE [cache |-> [raw |-> Some(scan.items),
                          lookup |-> Some(build_menu_lookup(scan.items)),
                          emb |-> Some(BuildEmbeddings(scan.items)),
                          ts |-> t],
               raised |-> FALSE, read |-> TRUE]
    ELSE [cache |-> cache, raised |-> FALSE, read |-> FALSE]

\* get_menu: scan is what menu_table.scan() does when it is called,
\* [ok |-> FALSE] when it raises.  Returns the cache afterwards and whether
\* the call raised.  The items, the lookup and the timestamp are stored
\* before the embeddings are built (line 120), the embeddings after (127).
get_menu(cache, force_refresh, t, scan) ==
    IF NeedsRefresh(cache, force_refresh, t)
    THEN IF ~scan.ok
         THEN [cache |-> cache, raised |-> TRUE, read |-> TRUE]
         ELSE IF EmbeddingsRaise(scan.items)
         THEN [cache |-> [raw |-> Some(scan.items),
                          lookup |-> Some(build_menu_lookup(scan.items)),
                          emb |-> cache.emb,
                          ts |-> t],
               raised |-> TRUE, read |-> TRUE]
         ELSE [cache |-> [raw |-> Some(scan.items),
                          lookup |-> Some(build_menu_lookup(scan.items)),
                          emb |-> Some(BuildEmbeddings(scan.items)),
                          ts |-> t],
               raised |-> FALSE, read |-> TRUE]
    ELSE [cache |-> cache, raised |-> FALSE, read |-> FALSE]

\* ---------------------------------------------------------- menu resolver

\* similarity scores are exact fractions <<numerator, denominator>>
cutoff == <<3, 5>>

Dot(v1, v2) == v1[1] * v2[1] + v1[2] * v2[2] + v1[3] * v2[3]

\* np.linalg.norm, for the vectors of the model (their norms are integers)
Norm(v) == CHOOSE n \in 0..10 : n * n = Dot(v, v)

\* a comparison that lets a later entry with an equal score take over
FracGt_or_equal(a, b) == a[1] * b[2] >= b[1] * a[2]
FracGt(a, b) == a[1] * b[2] > b[1] * a[2]
\* a comparison that rejects a score equal to the cutoff
FracGe_strict(a, b) == a[1] * b[2] > b[1] * a[2]
FracGe(a, b) == a[1] * b[2] >= b[1] * a[2]

\* the loop over embeddings_cache: best is [score, key]; a zero norm gives
\* nan, and nan > best_score is false
RECURSIVE BestMatch(_, _, _)
BestMatch(query_embedding, embeddings_cache, best) ==
    IF embeddings_cache = <<>> THEN best
    ELSE LET item_embedding == Head(embeddings_cache)
             v2 == item_embedding.embedding
             den == Norm(query_embedding) * Norm(v2)
             similarity == <<Dot(query_embedding, v2), den>>
         IN  BestMatch(query_embedding, Tail(embeddings_cache),
                 IF den # 0 /\ FracGt(similarity, best.score)
                 THEN [score |-> similarity, key |-> item_embedding.normalized_key]
                 ELSE best)

NoMatch == [key |-> None, score |-> <<0, 1>>, embedded |-> FALSE]

\* a resolver that asks the embedding service before it looks for the key
fuzzy_find_embeds_first(normalized_name, lookup, embeddings_cache, embed) ==
    IF ~Truthy(normalized_name) THEN NoMatch
    ELSE IF ~embed.ok THEN [NoMatch EXCEPT !.embedded = TRUE]
    ELSE IF normalized_name \in DOMAIN lookup
    THEN [key |-> normalized_name, score |-> <<1, 1>>, embedded |-> TRUE]
    ELSE NoMatch

\* _fuzzy_find: embed is what the embedding service answers for this text,
\* [ok |-> FALSE] when it raises
fuzzy_find(normalized_name, lookup, embeddings_cache, embed) ==
    IF ~Truthy(normalized_name) THEN NoMatch
    ELSE IF normalized_name \in DOMAIN lookup
    THEN [key |-> normalized_name, score |-> <<1, 1>>, embedded |-> FALSE]
    ELSE IF ~embed.ok THEN [NoMatch EXCEPT !.embedded = TRUE]
    ELSE LET best == BestMatch(embed.v, embeddings_cache, [score |-> <<-1, 1>>, key |-> None])
         IN  IF FracGe(best.score, cutoff)
             THEN [key |-> best.key, score |-> best.score, embedded |-> TRUE]
             ELSE [NoMatch EXCEPT !.embedded = TRUE]

\* --------------------------------------------------------- option helpers

\* an options dict is the sequence of its <<key, value>> pairs, in insertion order
DictHas(d, k) == \E i \in 1..Len(d) : d[i][1] = k
DictSet(d, k, v) ==
    IF DictHas(d, k)
    THEN [i \in 1..Len(d) |-> IF d[i][1] = k THEN <<k, v>> ELSE d[i]]
    ELSE Append(d, <<k, v>>)
DictKeys(d) == {d[i][1] : i \in 1..Len(d)}
DictValues(d) == {d[i][2] : i \in 1..Len(d)}
DictGet(d, k) == (CHOOSE i \in 1..Len(d) : d[i][1] = k)
DictValue(d, k) == d[DictGet(d, k)][2]

\* {**a, **b}
RECURSIVE DictMerge(_, _)
DictMerge(a, b) ==
    IF b = <<>> THEN a ELSE DictMerge(DictSet(a, Head(b)[1], Head(b)[2]), Tail(b))

\* a detection that records the last choice that is one of the words
FirstChoiceIn_last(choices, customer_words) ==
    IF \E j \in 1..Len(choices) :
           /\ Len(choices[j]) = 1
           /\ \E i \in 1..Len(customer_words) : customer_words[i] = choices[j][1]
    THEN choices[CHOOSE j \in 1..Len(choices) :
                    /\ Len(choices[j]) = 1
                    /\ \E i \in 1..Len(customer_words) : customer_words[i] = choices[j][1]
                    /\ \A k \in (j + 1)..Len(choices) :
                          ~(/\ Len(choices[k]) = 1
                            /\ \E i \in 1..Len(customer_words) :
                                   customer_words[i] = choices[k][1])]
    ELSE None

\* the first choice of the group that is one of the customer's words
RECURSIVE FirstChoiceIn(_, _)
FirstChoiceIn(choices, customer_words) ==
    IF choices = <<>> THEN None
    ELSE IF Len(Head(choices)) = 1
            /\ \E i \in 1..Len(customer_words) : customer_words[i] = Head(choices)[1]
    THEN Head(choices)
    ELSE FirstChoiceIn(Tail(choices), customer_words)

RECURSIVE DetectOptions(_, _, _)
DetectOptions(options, customer_words, detected_options) ==
    IF options = <<>> THEN detected_options
    ELSE LET opt_meta == Head(options)
             choice == FirstChoiceIn(opt_meta.choices, customer_words)
         IN  DetectOptions(Tail(options), customer_words,
                 IF choice # None THEN DictSet(detected_options, opt_meta.raw_name, choice)
                 ELSE detected_options)

check_if_option_in_item_name(parsed_name, menu_entry) ==
    DetectOptions(menu_entry.options, Split(normalize_name(parsed_name)), <<>>)

\* the first official option whose key is, or contains, the detected key
RECURSIVE OfficialFor(_, _)
OfficialFor(norm_detected_key, official_options) ==
    IF official_options = <<>> THEN None
    ELSE IF norm_detected_key = Head(official_options).key
            \/ Contains(Head(official_options).key, norm_detected_key)
    THEN Head(official_options).raw_name
    ELSE OfficialFor(norm_detected_key, Tail(official_options))

RECURSIVE NormalizeOptionsFrom(_, _, _)
NormalizeOptionsFrom(detected_options, official_options, normalized_options) ==
    IF detected_options = <<>> THEN normalized_options
    ELSE LET detected_key == Head(detected_options)[1]
             detected_value == Head(detected_options)[2]
             official == OfficialFor(normalize_name(detected_key), official_options)
         IN  NormalizeOptionsFrom(Tail(detected_options), official_options,
                 DictSet(normalized_options,
                         IF official # None THEN official ELSE detected_key,
                         detected_value))

\* a reconciliation that leaves every supplied key as it is
normalize_options_passes(detected_options, menu_entry) == detected_options

normalize_options(detected_options, menu_entry) ==
    NormalizeOptionsFrom(detected_options, menu_entry.options, <<>>)

\* ------------------------------------------------------------- json text

\* DecimalEncoder: a Decimal is written as a float
ToFloat(x) == [x EXCEPT !.dec = FALSE]

EncodeItem(item) ==
    [k \in DOMAIN item |->
        IF k \in {"price", "item_number"} THEN ToFloat(item[k]) ELSE item[k]]

\* json.dumps({"order_items": order_items}, cls=DecimalEncoder)
DumpsOrder(order_items) ==
    [order_items |-> [i \in 1..Len(order_items) |-> EncodeItem(order_items[i])]]

\* json.dumps(ni, cls=DecimalEncoder)
DumpsItem(item) == [item |-> EncodeItem(item)]

\* json.loads(text).get('order_items', [])
LoadsOrder(text) == text.order_items
LoadsItem(text) == text.item

\* -------------------------------------------------------------- responses

SlotNames == {"OrderQuery", "DrinkQuery", "OptionChoice"}

Msg(kind) == [kind |-> kind, item |-> <<>>, option |-> <<>>, choices |-> <<>>, parts |-> <<>>]

Resp(type, slot, message) ==
    [type |-> type, slotToElicit |-> slot, state |-> "InProgress", message |-> message]

\* the state of one invocation: the session attributes and slots it works on,
\* the catalog cache, the blocks it went through and, once it returned or
\* raised, its response
Ctx(sa, sl, cache) ==
    [sa |-> sa, slots |-> sl, cache |-> cache, trace |-> <<>>, done |-> FALSE,
     resp |-> Resp("None", "-", Msg("-"))]

OrderOf(sa) == IF Has(sa, "parsedOrder") THEN LoadsOrder(sa["parsedOrder"]) ELSE <<>>

\* log that the turn enters a block of handle_dialog, with the order it finds
Mark(c, label) ==
    [c EXCEPT !.trace = Append(c.trace, [block |-> label, order |-> OrderOf(c.sa)])]

\* an ElicitSlot that takes no notice of reset
elicit_slot_keeps(c, session_attrs_arg, slot_to_elicit, message_content, reset) ==
    [c EXCEPT !.done = TRUE, !.sa = session_attrs_arg,
              !.resp = Resp("ElicitSlot", slot_to_elicit, message_content)]

elicit_slot(c, session_attrs_arg, slot_to_elicit, message_content, reset) ==
    [c EXCEPT !.done = TRUE,
              !.slots = IF reset THEN [n \in SlotNames |-> None] ELSE c.slots,
              !.sa = IF reset THEN EmptyMap ELSE session_attrs_arg,
              !.resp = Resp("ElicitSlot", slot_to_elicit, message_content)]

confirm_intent(c, session_attrs_arg, message_content) ==
    [c EXCEPT !.done = TRUE, !.sa = session_attrs_arg,
              !.resp = Resp("ConfirmIntent", "-", message_content)]

delegate(c, session_attrs_arg) ==
    [c EXCEPT !.done = TRUE, !.sa = session_attrs_arg,
              !.resp = Resp("Delegate", "-", Msg("-"))]

\* a Close whose fulfillment state stands where the type belongs
close_dialog_untyped(c, session_attrs_arg, fulfillment_state, message) ==
    [c EXCEPT !.done = TRUE, !.sa = session_attrs_arg,
              !.resp = Resp(fulfillment_state, "-", message)]

close_dialog(c, session_attrs_arg, fulfillment_state, message) ==
    [c EXCEPT !.done = TRUE, !.sa = session_attrs_arg,
              !.resp = [Resp("Close", "-", message) EXCEPT !.state = fulfillment_state]]

\* an exception leaves the invocation: the host gets no response
Raise(c, exception) ==
    [c EXCEPT !.done = TRUE, !.resp = Resp("Raised", "-", Msg(exception))]

\* ------------------------------------------------- what the parser returns

PyInt(n) == [t |-> "int", v |-> n]
PyNumStr(n) == [t |-> "str", v |-> n]
PyMissing == [t |-> "missing", v |-> 0]
PyBad == [t |-> "bad", v |-> 0]

\* a conversion that lets every quantity through
IntRaises_never(q) == FALSE

\* a conversion that loses the quantity
IntOf_one(q) == 1

\* int(it.get('quantity', 1))
IntRaises(q) == q.t = "bad"
IntOf(q) == IF q.t = "missing" THEN 1 ELSE q.v

\* one element of order_items
Element(item_name, quantity, options) ==
    [isdict |-> TRUE, item_name |-> item_name, quantity |-> quantity,
     options |-> [isdict |-> TRUE, d |-> options]]
NotADict == [isdict |-> FALSE, item_name |-> None, quantity |-> PyMissing,
             options |-> [isdict |-> FALSE, d |-> <<>>]]

\* ------------------------------------------------ invoke_openrouter_parser

\* a JSON value: t is its type; word says whether a string holds the text
\* order_items, an array the element "order_items", an object the key
\* order_items; items is the value under that key
NoItems == [t |-> "absent", v |-> <<>>]
ItemList(elements) == [t |-> "list", v |-> elements]
ItemsOfType(t) == [t |-> t, v |-> <<>>]
JNull == [t |-> "null", word |-> FALSE, items |-> NoItems]
JNum == [t |-> "number", word |-> FALSE, items |-> NoItems]
JStr(word) == [t |-> "string", word |-> word, items |-> NoItems]
JArr(word) == [t |-> "array", word |-> word, items |-> NoItems]
JObj(items) == [t |-> "object", word |-> items.t # "absent", items |-> items]

\* message.content: form says what kind of text it is.  "json" is a text
\* that is one JSON value; "wrapped" has prose around a first balanced
\* {...} piece, which is the JSON text of value when valid; "prose" has no
\* brace; "unbalanced" never closes its first brace; "none" is None,
\* "empty" the empty string and "notstr" a content that is not a string
Content(form, valid, value) == [form |-> form, valid |-> valid, value |-> value]

\* what client.chat.completions.create gives: it raises, or answers with no
\* choice, or with one message
CallFails == [kind |-> "raises", content |-> Content("none", FALSE, JNull)]
NoChoices == [kind |-> "nochoices", content |-> Content("none", FALSE, JNull)]
Completion(content) == [kind |-> "message", content |-> content]

\* lines 611-626: the JSON text found in the answer, None when there is none
extract_json_from_text(text) ==
    IF text.form \in {"none", "empty"} THEN [raised |-> FALSE, json_str |-> NoneVal]
    ELSE IF text.form = "notstr" THEN [raised |-> TRUE, json_str |-> NoneVal]
    ELSE IF text.form = "json" THEN [raised |-> FALSE, json_str |-> Some(text.value)]
    ELSE IF text.form = "prose" THEN [raised |-> FALSE, json_str |-> NoneVal]
    ELSE IF text.form = "wrapped"
    THEN IF text.valid THEN [raised |-> FALSE, json_str |-> Some(text.value)]
         ELSE [raised |-> FALSE, json_str |-> NoneVal]
    ELSE [raised |-> FALSE, json_str |-> NoneVal]

\* 'order_items' not in parsed_json: a TypeError on a number, null or boolean
MembershipRaises(parsed_json) == parsed_json.t \in {"number", "null"}
\* parsed_json.get('order_items'): an AttributeError on a value that is no dict
GetRaises(parsed_json) == parsed_json.t # "object"

\* lines 632-640: the body of the try block
ParserBody(completion) ==
    IF completion.kind \in {"raises", "nochoices"}
    THEN [raised |-> TRUE, order_items |-> <<>>]
    ELSE With(extract_json_from_text(completion.content), LAMBDA found :
        IF found.raised THEN [raised |-> TRUE, order_items |-> <<>>]
        ELSE IF found.json_str.none THEN [raised |-> FALSE, order_items |-> <<>>]
        ELSE IF MembershipRaises(found.json_str.v)
        THEN [raised |-> TRUE, order_items |-> <<>>]
        ELSE IF ~found.json_str.v.word THEN [raised |-> FALSE, order_items |-> <<>>]
        ELSE IF GetRaises(found.json_str.v) THEN [raised |-> TRUE, order_items |-> <<>>]
        ELSE IF found.json_str.v.items.t # "list"
        THEN [raised |-> FALSE, order_items |-> <<>>]
        ELSE [raised |-> FALSE, order_items |-> found.json_str.v.items.v])

\* a parser without its exception handler
invoke_openrouter_parser_uncaught(user_text, completion) == ParserBody(completion)

\* lines 627-643
invoke_openrouter_parser(user_text, completion) ==
    IF ParserBody(completion).raised THEN [raised |-> FALSE, order_items |-> <<>>]
    ELSE ParserBody(completion)

EmbedFails == [ok |-> FALSE, v |-> <<0, 0, 0>>]
Embedding(v) == [ok |-> TRUE, v |-> v]

\* ----------------------------------------------------------- line items

Key(item) == Get(item, "normalized_key", None)
Options(item) == Get(item, "options", <<>>)
Category(item) == Get(item, "category", None)

\* the line item of a matched phrase (initial parse)
ResolvedItem(menu_entry, best_key, quantity, validated_options) ==
    [item_name |-> menu_entry.raw_item.ItemName, normalized_key |-> best_key,
     quantity |-> quantity, options |-> validated_options,
     category |-> menu_entry.category, price |-> menu_entry.price,
     item_number |-> menu_entry.item_number]

UnresolvedItem(parsed_name, quantity, options) ==
    [item_name |-> parsed_name, normalized_key |-> None, quantity |-> quantity,
     options |-> options]

\* the line item the drink turn appends
DrinkItem(menu_entry, best_key, quantity, validated_options) ==
    [item_name |-> menu_entry.raw_item.ItemName, normalized_key |-> best_key,
     quantity |-> quantity, options |-> validated_options,
     category |-> menu_entry.category]

\* the loop over parsed_result['order_items'] of the initial parse; each
\* element comes with the embedding service's answer for its phrase.
\* keep_unresolved is FALSE in the drink turn, which has no else branch.
\* lines 474-481 (parse) and 546-560 (drink): the line item of a resolved phrase
Matched(it, lookup, best_key, keep_unresolved) ==
    With(normalize_options(
             DictMerge(IF it.options.isdict THEN it.options.d ELSE <<>>,
                       check_if_option_in_item_name(it.item_name, lookup[best_key])),
             lookup[best_key]),
         LAMBDA validated_options :
             IF keep_unresolved
             THEN ResolvedItem(lookup[best_key], best_key, PyInt(IntOf(it.quantity)),
                               validated_options)
             ELSE DrinkItem(lookup[best_key], best_key, PyInt(IntOf(it.quantity)),
                            validated_options))

RECURSIVE NormalizeItems(_, _, _, _, _)

\* a loop that fails on an element that is no object
NormalizeItems_strict(elements, lookup, embeddings_cache, keep_unresolved, acc) ==
    IF elements = <<>> THEN [items |-> acc, raised |-> FALSE]
    ELSE IF ~Head(elements).el.isdict THEN [items |-> acc, raised |-> TRUE]
    ELSE IF ~Head(elements).el.isdict \/ ~Truthy(Head(elements).el.item_name)
    THEN NormalizeItems(Tail(elements), lookup, embeddings_cache, keep_unresolved, acc)
    ELSE IF IntRaises(Head(elements).el.quantity) THEN [items |-> acc, raised |-> TRUE]
    ELSE NormalizeItems(Tail(elements), lookup, embeddings_cache, keep_unresolved,
             With(fuzzy_find(normalize_name(Head(elements).el.item_name), lookup,
                             embeddings_cache, Head(elements).embed),
                  LAMBDA found :
                      IF Truthy(found.key)
                      THEN Append(acc, Matched(Head(elements).el, lookup, found.key,
                                               keep_unresolved))
                      ELSE IF keep_unresolved
                      THEN Append(acc, UnresolvedItem(
                               Head(elements).el.item_name,
                               PyInt(IntOf(Head(elements).el.quantity)),
                               IF Head(elements).el.options.isdict
                               THEN Head(elements).el.options.d ELSE <<>>))
                      ELSE acc))

\* lines 465-483 and 536-561: the loop over the parsed elements
NormalizeItems(elements, lookup, embeddings_cache, keep_unresolved, acc) ==
    IF elements = <<>> THEN [items |-> acc, raised |-> FALSE]
    ELSE IF ~Head(elements).el.isdict \/ ~Truthy(Head(elements).el.item_name)
    THEN NormalizeItems(Tail(elements), lookup, embeddings_cache, keep_unresolved, acc)
    ELSE IF IntRaises(Head(elements).el.quantity) THEN [items |-> acc, raised |-> TRUE]
    ELSE NormalizeItems(Tail(elements), lookup, embeddings_cache, keep_unresolved,
             With(fuzzy_find(normalize_name(Head(elements).el.item_name), lookup,
                             embeddings_cache, Head(elements).embed),
                  LAMBDA found :
                      IF Truthy(found.key)
                      THEN Append(acc, Matched(Head(elements).el, lookup, found.key,
                                               keep_unresolved))
                      ELSE IF keep_unresolved
                      THEN Append(acc, UnresolvedItem(
                               Head(elements).el.item_name,
                               PyInt(IntOf(Head(elements).el.quantity)),
                               IF Head(elements).el.options.isdict
                               THEN Head(elements).el.options.d ELSE <<>>))
                      ELSE acc))

\* --------------------------------------------------------- handle_dialog

\* lines 441-453: apply the supplied OptionChoice to the order
ApplyOption(order_items, current_item, option_name_to_set, choice_value) ==
    IF \E i \in 1..Len(order_items) : Key(order_items[i]) = Key(current_item)
    THEN LET i == CHOOSE j \in 1..Len(order_items) :
                      /\ Key(order_items[j]) = Key(current_item)
                      /\ \A k \in 1..(j - 1) : Key(order_items[k]) # Key(current_item)
             item == order_items[i]
         IN  [order_items EXCEPT ![i] =
                 Put(item, "options", DictSet(Options(item), option_name_to_set, choice_value))]
    ELSE order_items

OptionBlock(c) ==
    IF Has(c.sa, "currentItemToConfigure") /\ Truthy(Get(c.slots, "OptionChoice", None))
    THEN LET current_item == LoadsItem(c.sa["currentItemToConfigure"])
             sa1 == Pop(c.sa, "currentItemToConfigure")
             option_name_to_set == sa1["optionToConfigure"]
             sa2 == Pop(sa1, "optionToConfigure")
             order_items == LoadsOrder(sa2["parsedOrder"])
             choice_value == c.slots["OptionChoice"]
             changed == ApplyOption(order_items, current_item, option_name_to_set, choice_value)
         IN  IF ~Has(sa1, "optionToConfigure")
             THEN Raise([Mark(c, "option") EXCEPT !.sa = sa1], "KeyError")
             ELSE IF ~Has(sa2, "parsedOrder")
             THEN Raise([Mark(c, "option") EXCEPT !.sa = sa2], "KeyError")
             ELSE [Mark(c, "option") EXCEPT
                       !.sa = Put(sa2, "parsedOrder", DumpsOrder(changed)),
                       !.slots = Put(c.slots, "OptionChoice", None)]
    ELSE c

\* a handler that never asks for the order
AskOrderBlock_skips(c) == c

\* lines 455-456
AskOrderBlock(c) ==
    IF ~Truthy(Get(c.slots, "OrderQuery", None)) /\ ~Has(c.sa, "parsedOrder")
    THEN elicit_slot(c, c.sa, "OrderQuery", Msg("what would you like to order"), FALSE)
    ELSE c

\* a parse guard that forgets the one-shot flag
ShouldParse_always(c) == Truthy(Get(c.slots, "OrderQuery", None))

\* line 458: order text is parsed once, until the flag is cleared
ShouldParse(c) ==
    Truthy(Get(c.slots, "OrderQuery", None)) /\ ~Has(c.sa, "initialParseComplete")

\* lines 458-494: the initial parse
ParseBlock(c, env) ==
    IF ShouldParse(c)
    THEN With(Mark(c, "parse"), LAMBDA c1 :
         With(get_menu(c1.cache, FALSE, env.t, env.scan), LAMBDA menu :
             IF menu.raised
             THEN close_dialog(c1, c1.sa, "Failed", Msg("trouble understanding"))
             ELSE With(NormalizeItems(env.parse, menu.cache.lookup.v, menu.cache.emb.v,
                                      TRUE, <<>>),
                       LAMBDA parsed :
                  IF parsed.raised
                  THEN close_dialog([c1 EXCEPT !.cache = menu.cache], c1.sa, "Failed",
                                    Msg("trouble understanding"))
                  ELSE IF Has(c1.sa, "is_fallback_order")
                          /\ ~\E i \in 1..Len(parsed.items) : Truthy(Key(parsed.items[i]))
                  THEN elicit_slot([c1 EXCEPT !.cache = menu.cache], EmptyMap, "OrderQuery",
                                   Msg("no menu items recognized"), TRUE)
                  ELSE [c1 EXCEPT !.cache = menu.cache,
                                  !.sa = Put(Put(Pop(c1.sa, "is_fallback_order"),
                                                 "parsedOrder", DumpsOrder(parsed.items)),
                                             "initialParseComplete", "true")])))
    ELSE c

\* a required-option check that takes optional groups for required
RECURSIVE FirstMissingOption_any(_, _)
FirstMissingOption_any(options, provided_options) ==
    IF options = <<>> THEN NoneVal
    ELSE LET opt_meta == Head(options)
             is_provided == \E k \in DictKeys(provided_options) : k = opt_meta.raw_name
         IN  IF ~is_provided THEN Some(opt_meta)
             ELSE FirstMissingOption_any(Tail(options), provided_options)

\* lines 506-510: the first required option of the entry the item does not hold
RECURSIVE FirstMissingOption(_, _)
FirstMissingOption(options, provided_options) ==
    IF options = <<>> THEN NoneVal
    ELSE LET opt_meta == Head(options)
             is_provided == \E k \in DictKeys(provided_options) : k = opt_meta.raw_name
         IN  IF opt_meta.required /\ ~is_provided THEN Some(opt_meta)
             ELSE FirstMissingOption(Tail(options), provided_options)

\* lines 503-516: the first line item, in list order, that lacks a required
\* option; "KeyError" when a line item's key is not in the lookup
RECURSIVE FirstToConfigure(_, _)
FirstToConfigure(normalized_items, lookup) ==
    IF normalized_items = <<>> THEN [kind |-> "none"]
    ELSE LET ni == Head(normalized_items)
             missing == FirstMissingOption(lookup[Key(ni)].options, Options(ni))
         IN  IF ~Truthy(Key(ni)) THEN FirstToConfigure(Tail(normalized_items), lookup)
             ELSE IF Key(ni) \notin DOMAIN lookup THEN [kind |-> "KeyError"]
             ELSE IF ~missing.none THEN [kind |-> "missing", ni |-> ni, opt_meta |-> missing.v]
             ELSE FirstToConfigure(Tail(normalized_items), lookup)

IsDrink(item) == Truthy(Category(item)) /\ Contains(Lower(Category(item)), <<W("drink")>>)
IsFood(item) == Truthy(Category(item)) /\ ~Contains(Lower(Category(item)), <<W("drink")>>)

\* line 519: whether the validation pass asks the drink question
AskDrink(normalized_items, sl) ==
    LET has_food == \E i \in 1..Len(normalized_items) : IsFood(normalized_items[i])
        has_drink == \E i \in 1..Len(normalized_items) : IsDrink(normalized_items[i])
    IN  has_food /\ ~has_drink /\ ~Truthy(Get(sl, "DrinkQuery", None))

\* the unresolved line items, last first
unmatched_reversed(normalized_items) ==
    LET u == SelectSeq(normalized_items, LAMBDA i : ~Truthy(Key(i)))
    IN  [k \in 1..Len(u) |-> u[Len(u) + 1 - k]]

\* line 500
unmatched_items(normalized_items) == SelectSeq(normalized_items, LAMBDA i : ~Truthy(Key(i)))

\* a validation pass that flags the line item and forgets the option's name
Configure_one_marker(c, normalized_items, todo) ==
    IF todo.kind = "KeyError" THEN Raise(c, "KeyError")
    ELSE IF todo.kind = "missing"
    THEN elicit_slot(c,
             Put(Pop(c.sa, "optionToConfigure"), "currentItemToConfigure",
                 DumpsItem(todo.ni)),
             "OptionChoice",
             [Msg("which option") EXCEPT !.item = todo.ni.item_name,
                                         !.option = todo.opt_meta.raw_name,
                                         !.choices = todo.opt_meta.choices],
             FALSE)
    ELSE IF AskDrink(normalized_items, c.slots)
    THEN elicit_slot(c, c.sa, "DrinkQuery", Msg("anything to drink"), FALSE)
    ELSE c

\* lines 502-520: the question for the first line item that lacks a required
\* option, else the drink question, else nothing
Configure(c, normalized_items, todo) ==
    IF todo.kind = "KeyError" THEN Raise(c, "KeyError")
    ELSE IF todo.kind = "missing"
    THEN elicit_slot(c,
             Put(Put(c.sa, "currentItemToConfigure", DumpsItem(todo.ni)),
                 "optionToConfigure", todo.opt_meta.raw_name),
             "OptionChoice",
             [Msg("which option") EXCEPT !.item = todo.ni.item_name,
                                         !.option = todo.opt_meta.raw_name,
                                         !.choices = todo.opt_meta.choices],
             FALSE)
    ELSE IF AskDrink(normalized_items, c.slots)
    THEN elicit_slot(c, c.sa, "DrinkQuery", Msg("anything to drink"), FALSE)
    ELSE c

\* lines 496-520: the validation pass
ValidateBlock(c, env) ==
    IF Has(c.sa, "parsedOrder")
    THEN With(Mark(c, "validate"), LAMBDA c1 :
         With(LoadsOrder(c1.sa["parsedOrder"]), LAMBDA normalized_items :
         With(get_menu(c1.cache, FALSE, env.t, env.scan), LAMBDA menu :
             IF menu.raised THEN Raise(c1, "catalog read failed")
             ELSE IF unmatched_items(normalized_items) # <<>>
             THEN elicit_slot([c1 EXCEPT !.cache = menu.cache], c1.sa, "OrderQuery",
                      [Msg("could not find item") EXCEPT
                          !.item = unmatched_items(normalized_items)[1].item_name],
                      FALSE)
             ELSE Configure([c1 EXCEPT !.cache = menu.cache], normalized_items,
                            FirstToConfigure(normalized_items, menu.cache.lookup.v)))))
    ELSE c

\* lines 525-570: the drink turn
DrinkBlock(c, env) ==
    IF Truthy(Get(c.slots, "DrinkQuery", None))
    THEN With(Mark(c, "drink"), LAMBDA c1 :
         With(get_menu(c1.cache, FALSE, env.t, env.scan), LAMBDA menu :
             IF menu.raised
             THEN elicit_slot(c1, c1.sa, "DrinkQuery", Msg("trouble with drink order"), FALSE)
             ELSE With(NormalizeItems(env.drink, menu.cache.lookup.v, menu.cache.emb.v,
                                      FALSE,
                                      IF Has(c1.sa, "parsedOrder")
                                      THEN LoadsOrder(c1.sa["parsedOrder"]) ELSE <<>>),
                       LAMBDA parsed :
                  IF parsed.raised
                  THEN elicit_slot([c1 EXCEPT !.cache = menu.cache], c1.sa, "DrinkQuery",
                                   Msg("trouble with drink order"), FALSE)
                  ELSE [c1 EXCEPT !.cache = menu.cache,
                                  !.slots = Put(c1.slots, "DrinkQuery", None),
                                  !.sa = Put(c1.sa, "parsedOrder",
                                             DumpsOrder(parsed.items))])))
    ELSE c

SummaryPart(item) ==
    [quantity |-> item.quantity, item_name |-> item.item_name,
     options |-> DictValues(Options(item))]

\* lines 573-585
SummaryBlock(c) ==
    IF Has(c.sa, "parsedOrder")
    THEN LET final_order_items == LoadsOrder(c.sa["parsedOrder"])
         IN  confirm_intent(Mark(c, "summary"), c.sa,
                 [Msg("is that correct") EXCEPT
                     !.parts = [i \in 1..Len(final_order_items) |->
                                   SummaryPart(final_order_items[i])]])
    ELSE delegate(c, c.sa)

\* a confirmed turn that drops what the session holds
ConfirmedResponse_forgets(c) ==
    [c EXCEPT !.done = TRUE, !.sa = EmptyMap,
              !.resp = Resp("ElicitIntent", "-", Msg("any allergies"))]

\* a denied turn that asks again and keeps the session
DeniedResponse_keeps(c) ==
    elicit_slot(c, c.sa, "OrderQuery", Msg("start over"), FALSE)

\* lines 426-436
ConfirmedResponse(c) ==
    [c EXCEPT !.done = TRUE, !.resp = Resp("ElicitIntent", "-", Msg("any allergies"))]

\* lines 438-439
DeniedResponse(c) ==
    elicit_slot(c, c.sa, "OrderQuery", Msg("start over"), TRUE)

handle_dialog(c, confirmation_state, env) ==
    IF confirmation_state = "Confirmed" THEN ConfirmedResponse(c)
    ELSE IF confirmation_state = "Denied" THEN DeniedResponse(c)
    ELSE With(OptionBlock(c), LAMBDA a : IF a.done THEN a ELSE
         With(AskOrderBlock(a), LAMBDA b : IF b.done THEN b ELSE
         With(ParseBlock(b, env), LAMBDA p : IF p.done THEN p ELSE
         With(ValidateBlock(p, env), LAMBDA v : IF v.done THEN v ELSE
         With(DrinkBlock(v, env), LAMBDA d : IF d.done THEN d ELSE
         SummaryBlock(d))))))

\* ---------------------------------------------------------- fulfill_order

fulfill_order(c, allergy_info) ==
    LET final_order_items == IF Has(c.sa, "parsedOrder") THEN LoadsOrder(c.sa["parsedOrder"])
                             ELSE <<>>
    IN  close_dialog(c, c.sa, "Fulfilled",
            [Msg("order placed") EXCEPT
                !.parts = [i \in 1..Len(final_order_items) |->
                              SummaryPart(final_order_items[i])],
                !.item = IF Truthy(allergy_info) THEN allergy_info ELSE <<>>])

\* ---------------------------------------------------------- get_rag_answer

\* an answer that closes the dialog with an empty session
get_rag_answer_forgets(c, rag_ok) ==
    close_dialog(c, EmptyMap, "Fulfilled",
                 IF rag_ok THEN Msg("answer") ELSE Msg("error while looking up"))

\* lines 173-214: rag_ok is FALSE when a step of the try block raises
get_rag_answer(c, rag_ok) ==
    close_dialog(c, c.sa, "Fulfilled",
                 IF rag_ok THEN Msg("answer") ELSE Msg("error while looking up"))

\* --------------------------------------------------- handle_allergy_intent

\* session_attrs is the event's own map unless that one is empty: then the
\* handler writes allergyInfo to a new dict fulfill_order never sees
handle_allergy_intent(c, ev, env) ==
    LET has_allergy_confirmation == Get(ev.slots, "hasAllergyConfirmation", None)
        allergy_details == Get(ev.slots, "allergyDetails", None)
        ask_details == elicit_slot(c, c.sa, "allergyDetails", Msg("what are your allergies"), FALSE)
    IN  IF Truthy(allergy_details)
        THEN fulfill_order([c EXCEPT !.sa = IF c.sa = EmptyMap THEN c.sa
                                            ELSE Put(c.sa, "allergyInfo", allergy_details)],
                           allergy_details)
        ELSE IF has_allergy_confirmation = <<Cap("yes")>> THEN ask_details
        ELSE IF has_allergy_confirmation = <<Cap("no")>> THEN fulfill_order(c, None)
        ELSE IF env.allergy_llm = "YES" THEN ask_details
        ELSE IF env.allergy_llm = "NO" THEN fulfill_order(c, None)
        ELSE elicit_slot(c, c.sa, "hasAllergyConfirmation", Msg("do you have any allergies"), FALSE)

\* ------------------------------------------------ handle_modification_request

\* one record of the LLM's change list, with the embedding service's answers
Change(action, item_name, quantity, from_item, to_item, embed) ==
    [action |-> action, item_name |-> item_name, quantity |-> quantity,
     from_item |-> from_item, to_item |-> to_item, embed |-> embed]

ModifiedItem(menu_entry, key, quantity) ==
    [item_name |-> menu_entry.raw_item.ItemName, normalized_key |-> key,
     quantity |-> quantity, options |-> <<>>]

\* an update that replaces every line item of the from-key
UpdateItem_all(order_items, from_item_key, to_item_key, lookup) ==
    [i \in 1..Len(order_items) |->
        IF Key(order_items[i]) = from_item_key
        THEN ModifiedItem(lookup[to_item_key], to_item_key, order_items[i].quantity)
        ELSE order_items[i]]

\* lines 401-409
UpdateItem(order_items, from_item_key, to_item_key, lookup) ==
    IF \E i \in 1..Len(order_items) : Key(order_items[i]) = from_item_key
    THEN LET i == CHOOSE j \in 1..Len(order_items) :
                      /\ Key(order_items[j]) = from_item_key
                      /\ \A k \in 1..(j - 1) : Key(order_items[k]) # from_item_key
         IN  [order_items EXCEPT ![i] =
                 ModifiedItem(lookup[to_item_key], to_item_key, order_items[i].quantity)]
    ELSE order_items

\* a remove that takes the first line item when the name resolves to nothing
ApplyChange_removes_first(change, order_items, lookup, best, from_item, to_item) ==
    IF change.action = "remove" /\ Truthy(best.key)
    THEN SelectSeq(order_items, LAMBDA item : Key(item) # best.key)
    ELSE IF change.action = "remove" /\ order_items # <<>>
    THEN Tail(order_items)
    ELSE order_items

\* lines 390-409: one change applied to the order
ApplyChange(change, order_items, lookup, best, from_item, to_item) ==
    IF change.action = "add" /\ Truthy(best.key)
    THEN Append(order_items, ModifiedItem(lookup[best.key], best.key,
                    IF change.quantity.t = "missing" THEN PyInt(1)
                    ELSE change.quantity))
    ELSE IF change.action = "remove" /\ Truthy(best.key)
    THEN SelectSeq(order_items, LAMBDA item : Key(item) # best.key)
    ELSE IF change.action = "update" /\ Truthy(from_item.key) /\ Truthy(to_item.key)
    THEN UpdateItem(order_items, from_item.key, to_item.key, lookup)
    ELSE order_items

\* lines 386-409
RECURSIVE ApplyChanges(_, _, _, _)
ApplyChanges(changes, order_items, lookup, embeddings_cache) ==
    IF changes = <<>> THEN order_items
    ELSE ApplyChanges(Tail(changes),
             ApplyChange(Head(changes), order_items, lookup,
                 fuzzy_find(normalize_name(Head(changes).item_name), lookup,
                            embeddings_cache, Head(changes).embed),
                 fuzzy_find(normalize_name(Head(changes).from_item), lookup,
                            embeddings_cache, Head(changes).embed),
                 fuzzy_find(normalize_name(Head(changes).to_item), lookup,
                            embeddings_cache, Head(changes).embed)),
             lookup, embeddings_cache)

\* env.mod is what the completion call and json.loads give: ok is FALSE when
\* either raises or the answer has no usable change list
handle_modification_request(c, confirmation_state, env) ==
    IF ~Has(c.sa, "parsedOrder")
    THEN elicit_slot(c, c.sa, "OrderQuery", Msg("no order placed yet"), FALSE)
    ELSE IF ~env.mod.ok
    THEN elicit_slot(c, c.sa, "ModificationRequest", Msg("trouble with change"), FALSE)
    ELSE With(get_menu(c.cache, FALSE, env.t, env.scan), LAMBDA menu :
         IF menu.raised
         THEN elicit_slot(c, c.sa, "ModificationRequest", Msg("trouble with change"), FALSE)
         ELSE With(handle_dialog(
                       [c EXCEPT !.cache = menu.cache,
                                 !.sa = Put(c.sa, "parsedOrder",
                                            DumpsOrder(ApplyChanges(
                                                env.mod.changes,
                                                LoadsOrder(c.sa["parsedOrder"]),
                                                menu.cache.lookup.v, menu.cache.emb.v)))],
                       confirmation_state, env),
                   LAMBDA r :
              IF r.resp.type = "Raised"
              THEN elicit_slot(r, r.sa, "ModificationRequest", Msg("trouble with change"),
                               FALSE)
              ELSE r))

\* --------------------------------------------------------- lambda_handler

\* classify_user_intent: the label, or "None"
classify_user_intent(answer) ==
    IF answer \in {"QUESTION", "ORDER", "MODIFICATION", "FAREWELL"} THEN answer ELSE "None"

GreetingResponse(c) ==
    [c EXCEPT !.done = TRUE, !.sa = EmptyMap, !.slots = [n \in SlotNames |-> None],
              !.resp = Resp("ElicitSlot", "OrderQuery", Msg("greeting"))]

lambda_handler(c, ev, env) ==
    IF ev.intent_name = "FallbackIntent"
    THEN LET user_intent == classify_user_intent(env.classify)
         IN  IF user_intent = "QUESTION" THEN get_rag_answer(c, env.rag_ok)
             ELSE IF user_intent = "ORDER"
             THEN handle_dialog([c EXCEPT !.sa = Put(c.sa, "is_fallback_order", "true"),
                                          !.slots = Put(c.slots, "OrderQuery", ev.transcript)],
                                ev.confirmation_state, env)
             ELSE IF user_intent = "MODIFICATION"
             THEN handle_modification_request(c, ev.confirmation_state, env)
             ELSE IF user_intent = "FAREWELL"
             THEN close_dialog(c, EmptyMap, "Fulfilled", Msg("have a great day"))
             ELSE elicit_slot(c, EmptyMap, "OrderQuery", Msg("can only take orders"), TRUE)
    ELSE IF ev.intent_name = "GreetingIntent" THEN GreetingResponse(c)
    ELSE IF ev.intent_name = "AllergyIntent" THEN handle_allergy_intent(c, ev, env)
    ELSE IF ev.intent_name = "ModifyOrderIntent"
    THEN handle_modification_request(c, ev.confirmation_state, env)
    ELSE IF ev.invocation_source = "DialogCodeHook"
    THEN handle_dialog(c, ev.confirmation_state, env)
    ELSE IF ev.invocation_source = "FulfillmentCodeHook" THEN fulfill_order(c, None)
    ELSE close_dialog(c, c.sa, "Failed", Msg("could not handle request"))

\* ----------------------------------------------------------------- inputs

ConfirmationStates == {"None", "Confirmed", "Denied"}

Text == <<W("text")>>
Beef == <<W("beef")>>
Vegetable == <<W("vegetable")>>

Asked(el, embed) == [el |-> el, embed |-> embed]

\* what the order parser may return for an utterance, each element with the
\* embedding service's answer for its phrase (asked only without exact match)
ParserOutcomes ==
    { <<>>,
      << Asked(Element(<<W("roll")>>, PyInt(2), <<>>), EmbedFails),
         Asked(Element(<<Cap("coke")>>, PyInt(1), <<>>), EmbedFails) >>,
      << Asked(Element(<<W("gyoza")>>, PyMissing, <<>>), EmbedFails) >>,
      << Asked(Element(<<W("beef"), SP, W("gyoza")>>, PyInt(1), <<>>), Embedding(<<0, 4, 3>>)),
         Asked(Element(<<W("gyoza")>>, PyInt(1), << <<<<W("style")>>, <<W("fried")>>>> >>),
               EmbedFails) >>,
      << Asked(Element(<<W("gyoza")>>, PyNumStr(2),
                       << <<<<W("protein")>>, Beef>>, <<<<W("style")>>, <<W("fried")>>>> >>),
               EmbedFails) >>,
      << Asked(Element(<<W("ramen")>>, PyInt(1), <<>>), EmbedFails),
         Asked(Element(<<W("udon")>>, PyInt(1), <<>>), Embedding(<<-1, 0, 0>>)) >>,
      << Asked(Element(<<W("gyoza")>>, PyInt(1), <<>>), EmbedFails),
         Asked(Element(<<W("ramen")>>, PyInt(1), <<>>), EmbedFails) >>,
      << Asked(Element(<<W("roll")>>, PyBad, <<>>), EmbedFails) >> }

\* what the parser may return for a drink utterance
DrinkOutcomes ==
    { << Asked(Element(<<W("cola")>>, PyInt(2), <<>>), Embedding(<<0, 3, 4>>)) >>,
      << Asked(Element(<<W("water")>>, PyInt(1), <<>>), EmbedFails) >>,
      << Asked(Element(<<W("gyoza")>>, PyInt(1), <<>>), EmbedFails) >>,
      << Asked(Element(<<W("coke")>>, PyBad, <<>>), EmbedFails) >> }

ModFails == [ok |-> FALSE, changes |-> <<>>]
Changes(changes) == [ok |-> TRUE, changes |-> changes]

Classifications == {"QUESTION", "ORDER", "MODIFICATION", "FAREWELL", "MAYBE"}
AllergyAnswers == {"YES", "NO", "UNKNOWN"}

Scan(ok) == [ok |-> ok, items |-> StoreItems]

Event(intent_name, invocation_source, confirmation_state, sl) ==
    [intent_name |-> intent_name, invocation_source |-> invocation_source,
     confirmation_state |-> confirmation_state, slots |-> sl,
     session_attrs |-> session_attrs, transcript |-> Text]

Env(scan_ok, parse, drink, mod, classify, rag_ok, allergy_llm) ==
    [t |-> now, scan |-> Scan(scan_ok), parse |-> parse, drink |-> drink, mod |-> mod,
     classify |-> classify, rag_ok |-> rag_ok, allergy_llm |-> allergy_llm]

\* what the collaborators answered, the table's rows left out
Answers(env) == [env EXCEPT !.scan = env.scan.ok]

\* no direct call was made
NoCall == [fn |-> "-"]

\* ------------------------------------------------------------------- init

Init ==
    /\ session_attrs = EmptyMap
    /\ slots = [n \in SlotNames |-> None]
    /\ response = Resp("None", "-", Msg("-"))
    /\ trace = <<>>
    /\ menu_raw = NoneVal
    /\ menu_lookup = NoneVal
    /\ menu_embeddings_cache = NoneVal
    /\ menu_cache_timestamp = 0
    /\ now = 0
    /\ beverage_turn = FALSE
    /\ call = NoCall
    /\ inbound = [event |-> [Event("-", "-", "None", EmptyMap)
                                EXCEPT !.session_attrs = EmptyMap],
                  env |-> Answers(Env(TRUE, <<>>, <<>>, ModFails, "MAYBE", TRUE,
                                      "UNKNOWN"))]

\* ---------------------------------------------------------------- actions

\* one invocation of the Lambda by the host.  A response replaces the
\* session attributes and slots the host holds; an exception leaves them.
Invoke(ev, env) ==
    \E r \in {lambda_handler(Ctx(ev.session_attrs, ev.slots, Cache), ev, env)} :
        /\ Len(OrderOf(r.sa)) <= MaxItems
        /\ inbound' = [event |-> ev, env |-> Answers(env)]
        /\ response' = r.resp
        /\ trace' = r.trace
        /\ IF r.resp.type = "Raised"
           THEN UNCHANGED <<session_attrs, slots, beverage_turn>>
           ELSE /\ session_attrs' = r.sa
                /\ slots' = r.slots
                /\ beverage_turn' =
                       IF r.sa = EmptyMap THEN FALSE
                       ELSE \/ beverage_turn
                            \/ /\ r.resp.type = "ConfirmIntent"
                               /\ \E i \in DOMAIN r.trace : r.trace[i].block = "drink"
        /\ menu_raw' = r.cache.raw
        /\ menu_lookup' = r.cache.lookup
        /\ menu_embeddings_cache' = r.cache.emb
        /\ menu_cache_timestamp' = r.cache.ts
        /\ UNCHANGED <<now, call>>

ScanResults == IF NeedsRefresh(Cache, FALSE, now) THEN BOOLEAN ELSE {TRUE}

\* the slots the host sends: those it holds, at most one of them newly filled
HostSlots(filled, value) ==
    [n \in SlotNames |-> IF n = filled THEN value ELSE Get(slots, n, None)]

Fillings ==
    {<<"-", None>>, <<"OrderQuery", Text>>, <<"DrinkQuery", Text>>,
     <<"OptionChoice", Beef>>, <<"OptionChoice", Vegetable>>}

\* does the turn get as far as the given block of handle_dialog
Reaches(block, ev, env) ==
    \E r \in {lambda_handler(Ctx(ev.session_attrs, ev.slots, Cache), ev, env)} :
        \E i \in DOMAIN r.trace : r.trace[i].block = block

\* the parsers answer only in the turns that call them
DialogTurnOf(parser_outcomes, drink_outcomes) ==
    \E confirmation_state \in ConfirmationStates :
    \E filling \in (IF confirmation_state = "None" THEN Fillings ELSE {<<"-", None>>}) :
    \E scan_ok \in ScanResults :
        LET ev == Event("OrderFood", "DialogCodeHook", confirmation_state,
                        HostSlots(filling[1], filling[2]))
            E(parse, drink) == Env(scan_ok, parse, drink, ModFails, "MAYBE", TRUE, "UNKNOWN")
        IN  \E parse \in (IF Reaches("parse", ev, E(<<>>, <<>>)) THEN parser_outcomes
                          ELSE {<<>>}) :
            \E drink \in (IF Reaches("drink", ev, E(parse, <<>>)) THEN drink_outcomes
                          ELSE {<<>>}) :
                Invoke(ev, E(parse, drink))

DialogTurn == DialogTurnOf(ParserOutcomes, DrinkOutcomes)

FulfillmentTurn ==
    Invoke(Event("OrderFood", "FulfillmentCodeHook", "Confirmed", slots),
           Env(TRUE, <<>>, <<>>, ModFails, "MAYBE", TRUE, "UNKNOWN"))

OtherSourceTurn ==
    Invoke(Event("OrderFood", "Other", "None", slots),
           Env(TRUE, <<>>, <<>>, ModFails, "MAYBE", TRUE, "UNKNOWN"))

GreetingTurn ==
    Invoke(Event("GreetingIntent", "DialogCodeHook", "None", EmptyMap),
           Env(TRUE, <<>>, <<>>, ModFails, "MAYBE", TRUE, "UNKNOWN"))

\* The turns of the other intents, with the order dialog beside them, on a
\* smaller set of parser answers.

ShortParserOutcomes ==
    { <<>>,
      << Asked(Element(<<W("roll")>>, PyInt(2), <<>>), EmbedFails),
         Asked(Element(<<Cap("coke")>>, PyInt(1), <<>>), EmbedFails) >>,
      << Asked(Element(<<W("gyoza")>>, PyMissing, <<>>), EmbedFails) >>,
      << Asked(Element(<<W("ramen")>>, PyInt(1), <<>>), EmbedFails) >> }

ShortDrinkOutcomes ==
    { << Asked(Element(<<W("water")>>, PyInt(1), <<>>), EmbedFails) >>,
      << Asked(Element(<<W("coke")>>, PyBad, <<>>), EmbedFails) >> }

ShortModOutcomes ==
    { ModFails,
      Changes(<< Change("add", <<W("gyoza")>>, PyMissing, None, None, EmbedFails) >>),
      Changes(<< Change("remove", <<W("roll")>>, PyMissing, None, None, EmbedFails) >>) }

ShortDialogTurn == DialogTurnOf(ShortParserOutcomes, ShortDrinkOutcomes)

FallbackTurn ==
    \E classify \in Classifications :
    \E confirmation_state \in (IF classify \in {"ORDER", "MODIFICATION"}
                               THEN ConfirmationStates ELSE {"None"}) :
    \E scan_ok \in ScanResults :
        LET ev == Event("FallbackIntent", "DialogCodeHook", confirmation_state, EmptyMap)
            E(parse, mod, rag_ok) ==
                Env(scan_ok, parse, <<>>, mod, classify, rag_ok, "UNKNOWN")
            modifies == classify = "MODIFICATION" /\ Has(session_attrs, "parsedOrder")
        IN  \E parse \in (IF Reaches("parse", ev, E(<<>>, ModFails, TRUE))
                          THEN ShortParserOutcomes ELSE {<<>>}),
               mod \in (IF modifies THEN ShortModOutcomes ELSE {ModFails}),
               rag_ok \in (IF classify = "QUESTION" THEN BOOLEAN ELSE {TRUE}) :
                Invoke(ev, E(parse, mod, rag_ok))

AllergyTurn ==
    \E confirmation \in {None, <<Cap("yes")>>, <<Cap("no")>>} :
    \E details \in (IF confirmation = None THEN {None, <<W("peanuts")>>} ELSE {None}) :
    \E allergy_llm \in (IF confirmation = None /\ details = None THEN AllergyAnswers
                        ELSE {"UNKNOWN"}) :
        Invoke(Event("AllergyIntent", "DialogCodeHook", "None",
                     [n \in {"hasAllergyConfirmation", "allergyDetails"} |->
                         IF n = "allergyDetails" THEN details ELSE confirmation]),
               Env(TRUE, <<>>, <<>>, ModFails, "MAYBE", TRUE, allergy_llm))

ModifyTurnOf(mod_outcomes) ==
    \E confirmation_state \in ConfirmationStates,
       mod \in (IF Has(session_attrs, "parsedOrder") THEN mod_outcomes ELSE {ModFails}),
       scan_ok \in ScanResults :
        Invoke(Event("ModifyOrderIntent", "DialogCodeHook", confirmation_state, EmptyMap),
               Env(scan_ok, <<>>, <<>>, mod, "MAYBE", TRUE, "UNKNOWN"))

ModifyTurn == ModifyTurnOf(ShortModOutcomes)

\* The order dialog and the modification turn on parser answers whose
\* quantities are missing, zero, negative, numeric text and not numeric.

QuantityParserOutcomes ==
    { << Asked(Element(<<W("roll")>>, PyInt(0), <<>>), EmbedFails) >>,
      << Asked(Element(<<W("roll")>>, PyInt(-1), <<>>), EmbedFails) >>,
      << Asked(Element(<<W("roll")>>, PyMissing, <<>>), EmbedFails) >>,
      << Asked(Element(<<W("roll")>>, PyNumStr(2), <<>>), EmbedFails) >>,
      << Asked(Element(<<W("roll")>>, PyBad, <<>>), EmbedFails) >> }

QuantityDrinkOutcomes ==
    { << Asked(Element(<<W("coke")>>, PyInt(0), <<>>), EmbedFails) >>,
      << Asked(Element(<<W("coke")>>, PyMissing, <<>>), EmbedFails) >>,
      << Asked(Element(<<W("coke")>>, PyBad, <<>>), EmbedFails) >> }

QuantityModOutcomes ==
    { Changes(<< Change("add", <<W("coke")>>, PyInt(0), None, None, EmbedFails) >>),
      Changes(<< Change("add", <<W("coke")>>, PyNumStr(2), None, None, EmbedFails) >>),
      Changes(<< Change("add", <<W("coke")>>, PyMissing, None, None, EmbedFails) >>),
      Changes(<< Change("update", None, PyMissing, <<W("roll")>>, <<W("gyoza")>>,
                        EmbedFails) >>) }

QuantityDialogTurn == DialogTurnOf(QuantityParserOutcomes, QuantityDrinkOutcomes)

QuantityModifyTurn == ModifyTurnOf(QuantityModOutcomes)

QuantityNext == QuantityDialogTurn \/ QuantityModifyTurn

QuantitySpec == Init /\ [][QuantityNext]_vars

\* the session rests for longer than the cache lives
LongPause ==
    /\ now + menu_cache_ttl_seconds + 1 <= MaxTime
    /\ now' = now + menu_cache_ttl_seconds + 1
    /\ UNCHANGED <<session_attrs, slots, response, trace, cacheVars, inbound, beverage_turn,
                   call>>

\* the order dialog: the turns of the OrderFood intent
Next ==
    \/ DialogTurn
    \/ FulfillmentTurn
    \/ OtherSourceTurn
    \/ GreetingTurn
    \/ LongPause

Spec == Init /\ [][Next]_vars

\* the whole handler: every intent and invocation source
SessionNext ==
    \/ ShortDialogTurn
    \/ FulfillmentTurn
    \/ OtherSourceTurn
    \/ GreetingTurn
    \/ FallbackTurn
    \/ AllergyTurn
    \/ ModifyTurn

SessionSpec == Init /\ [][SessionNext]_vars

\* ------------------------------------------------- get_menu called directly

\* what menu_table.scan() may do: the catalog, a shorter catalog, a failure
CatalogScans ==
    { Scan(TRUE), [Scan(TRUE) EXCEPT !.items = SubSeq(StoreItems, 1, 2)], Scan(FALSE) }

\* the snapshot get_menu returns
Snapshot(cache) == <<cache.raw, cache.lookup, cache.emb>>

GetMenuCall ==
    \E force_refresh \in BOOLEAN, scan \in CatalogScans :
    \E r \in {get_menu(Cache, force_refresh, now, scan)} :
        /\ menu_raw' = r.cache.raw
        /\ menu_lookup' = r.cache.lookup
        /\ menu_embeddings_cache' = r.cache.emb
        /\ menu_cache_timestamp' = r.cache.ts
        /\ call' = [fn |-> "get_menu", force_refresh |-> force_refresh,
                    scan_ok |-> scan.ok, scanned |-> Len(scan.items), t |-> now,
                    before |-> Cache, read |-> r.read, raised |-> r.raised,
                    returned |-> IF r.raised THEN NoneVal ELSE Some(Snapshot(r.cache))]
        /\ UNCHANGED <<session_attrs, slots, response, trace, now, inbound, beverage_turn>>

\* time.time() moves on between two calls
Delays == {1800, menu_cache_ttl_seconds, menu_cache_ttl_seconds + 1}

Tick ==
    \E d \in Delays :
        /\ now + d <= MaxClock
        /\ now' = now + d
        /\ UNCHANGED <<session_attrs, slots, response, trace, cacheVars, inbound,
                       beverage_turn, call>>

CacheNext == GetMenuCall \/ Tick

CacheSpec == Init /\ [][CacheNext]_vars

\* ------------------------------------- two get_menu calls in one process

\* one call of get_menu, statement by statement: pc is the statement it is
\* about to run, at (its now) and items its locals, ret what its return statement has
\* loaded so far
Threads == {1, 2}

MenuThread(force_refresh) ==
    [pc |-> "clock", force_refresh |-> force_refresh, at |-> 0, items |-> NoneVal,
     ret |-> <<>>]

\* the cache a lone refresh of the catalog leaves, stamped t
Loaded(t) ==
    [raw |-> Some(StoreItems), lookup |-> Some(build_menu_lookup(StoreItems)),
     emb |-> Some(BuildEmbeddings(StoreItems)), ts |-> t]

RaceStart == 3700

\* a cold start, and a cache loaded long or shortly before
RaceInit ==
    /\ session_attrs = EmptyMap
    /\ slots = [n \in SlotNames |-> None]
    /\ response = Resp("None", "-", Msg("-"))
    /\ trace = <<>>
    /\ now = RaceStart
    /\ beverage_turn = FALSE
    /\ inbound = [event |-> [Event("-", "-", "None", EmptyMap)
                                EXCEPT !.session_attrs = EmptyMap],
                  env |-> Answers(Env(TRUE, <<>>, <<>>, ModFails, "MAYBE", TRUE,
                                      "UNKNOWN"))]
    /\ \E before \in {[raw |-> NoneVal, lookup |-> NoneVal, emb |-> NoneVal, ts |-> 0],
                       Loaded(RaceStart - menu_cache_ttl_seconds - 1),
                       Loaded(RaceStart - menu_cache_ttl_seconds)} :
            /\ menu_raw = before.raw
            /\ menu_lookup = before.lookup
            /\ menu_embeddings_cache = before.emb
            /\ menu_cache_timestamp = before.ts
            /\ \E f1, f2 \in BOOLEAN :
                    call = [fn |-> "get_menu_race", before |-> before,
                            t |-> [i \in Threads |-> MenuThread(IF i = 1 THEN f1 ELSE f2)]]

\* thread i goes to statement pc with its locals changed as in th
Goto(i, th) == call' = [call EXCEPT !.t[i] = th]

\* now = int(time.time())
ReadClock(i) ==
    /\ call.t[i].pc = "clock"
    /\ Goto(i, [call.t[i] EXCEPT !.pc = "test_raw", !.at = now])
    /\ UNCHANGED <<cacheVars>>

\* force_refresh or _menu_raw is None
TestRaw(i) ==
    /\ call.t[i].pc = "test_raw"
    /\ Goto(i, [call.t[i] EXCEPT !.pc = IF call.t[i].force_refresh \/ menu_raw.none
                                         THEN "scan" ELSE "test_ts"])
    /\ UNCHANGED <<cacheVars>>

\* (now - _menu_cache_timestamp) > _menu_cache_ttl_seconds
TestTimestamp(i) ==
    /\ call.t[i].pc = "test_ts"
    /\ Goto(i, [call.t[i] EXCEPT !.pc =
                    IF call.t[i].at - menu_cache_timestamp > menu_cache_ttl_seconds
                    THEN "scan" ELSE "load_raw"])
    /\ UNCHANGED <<cacheVars>>

\* items = menu_table.scan().get('Items', []): the store's contents do not change
ScanStore(i) ==
    /\ call.t[i].pc = "scan"
    /\ Goto(i, [call.t[i] EXCEPT !.pc = "store_raw", !.items = Some(StoreItems)])
    /\ UNCHANGED <<cacheVars>>

\* _menu_raw, _menu_lookup, _menu_cache_timestamp = ...: three stores
StoreRaw(i) ==
    /\ call.t[i].pc = "store_raw"
    /\ menu_raw' = call.t[i].items
    /\ Goto(i, [call.t[i] EXCEPT !.pc = "store_lookup"])
    /\ UNCHANGED <<menu_lookup, menu_embeddings_cache, menu_cache_timestamp>>

StoreLookup(i) ==
    /\ call.t[i].pc = "store_lookup"
    /\ menu_lookup' = Some(build_menu_lookup(call.t[i].items.v))
    /\ Goto(i, [call.t[i] EXCEPT !.pc = "store_ts"])
    /\ UNCHANGED <<menu_raw, menu_embeddings_cache, menu_cache_timestamp>>

StoreTimestamp(i) ==
    /\ call.t[i].pc = "store_ts"
    /\ menu_cache_timestamp' = call.t[i].at
    /\ Goto(i, [call.t[i] EXCEPT !.pc = "store_emb"])
    /\ UNCHANGED <<menu_raw, menu_lookup, menu_embeddings_cache>>

\* _menu_embeddings_cache = embeddings, after the loop that builds them
StoreEmbeddings(i) ==
    /\ call.t[i].pc = "store_emb"
    /\ menu_embeddings_cache' = Some(BuildEmbeddings(call.t[i].items.v))
    /\ Goto(i, [call.t[i] EXCEPT !.pc = "load_raw"])
    /\ UNCHANGED <<menu_raw, menu_lookup, menu_cache_timestamp>>

\* return _menu_raw, _menu_lookup, _menu_embeddings_cache: three loads
LoadRaw(i) ==
    /\ call.t[i].pc = "load_raw"
    /\ Goto(i, [call.t[i] EXCEPT !.pc = "load_lookup", !.ret = <<menu_raw>>])
    /\ UNCHANGED <<cacheVars>>

LoadLookup(i) ==
    /\ call.t[i].pc = "load_lookup"
    /\ Goto(i, [call.t[i] EXCEPT !.pc = "load_emb", !.ret = Append(@, menu_lookup)])
    /\ UNCHANGED <<cacheVars>>

LoadEmbeddings(i) ==
    /\ call.t[i].pc = "load_emb"
    /\ Goto(i, [call.t[i] EXCEPT !.pc = "done", !.ret = Append(@, menu_embeddings_cache)])
    /\ UNCHANGED <<cacheVars>>

\* the clock moves on while the calls run
RaceTick ==
    /\ call.fn = "get_menu_race"
    /\ now < RaceStart + 1
    /\ now' = now + 1
    /\ UNCHANGED <<session_attrs, slots, response, trace, cacheVars, inbound,
                   beverage_turn, call>>

ThreadStep(i) ==
    /\ call.fn = "get_menu_race"
    /\ \/ ReadClock(i) \/ TestRaw(i) \/ TestTimestamp(i) \/ ScanStore(i)
       \/ StoreRaw(i) \/ StoreLookup(i) \/ StoreTimestamp(i) \/ StoreEmbeddings(i)
       \/ LoadRaw(i) \/ LoadLookup(i) \/ LoadEmbeddings(i)
    /\ UNCHANGED <<session_attrs, slots, response, trace, now, inbound, beverage_turn>>

RaceNext == RaceTick \/ \E i \in Threads : ThreadStep(i)

RaceSpec == RaceInit /\ [][RaceNext]_vars

\* ------------------------------- get_menu calls over a store that changes

\* a row whose ItemEmbedding holds an element that is no number
SoupRow ==
    [ItemName |-> <<Cap("soup")>>, Category |-> <<Cap("food")>>,
     Price |-> [dec |-> TRUE, n |-> 4], ItemNumber |-> [dec |-> TRUE, n |-> 6],
     Options |-> <<>>, ItemEmbedding |-> NotNumeric(<<1, 0, 0>>)]

\* the store holds the catalog, the catalog without its drink, or the latter
\* with the soup row; or the read fails
SnapshotScans ==
    { Scan(TRUE), [Scan(TRUE) EXCEPT !.items = SubSeq(StoreItems, 1, 2)],
      [Scan(TRUE) EXCEPT !.items = Append(SubSeq(StoreItems, 1, 2), SoupRow)],
      Scan(FALSE) }

SnapshotCall ==
    \E force_refresh \in BOOLEAN, scan \in SnapshotScans :
    \E r \in {get_menu(Cache, force_refresh, now, scan)} :
        /\ menu_raw' = r.cache.raw
        /\ menu_lookup' = r.cache.lookup
        /\ menu_embeddings_cache' = r.cache.emb
        /\ menu_cache_timestamp' = r.cache.ts
        /\ call' = [fn |-> "get_menu", force_refresh |-> force_refresh,
                    scan_ok |-> scan.ok, scanned |-> Len(scan.items), t |-> now,
                    before |-> Cache, read |-> r.read, raised |-> r.raised,
                    returned |-> IF r.raised THEN NoneVal ELSE Some(Snapshot(r.cache))]
        /\ UNCHANGED <<session_attrs, slots, response, trace, now, inbound, beverage_turn>>

\* handle_dialog lines 464 and 472: a get_menu call that finds the cache
\* fresh, and the resolver on the lookup and embeddings it returns
SnapshotResolve ==
    /\ ~NeedsRefresh(Cache, FALSE, now)
    /\ \E phrase \in {<<W("cola")>>, <<W("dumpling")>>},
          embed \in {Embedding(<<0, 3, 4>>), Embedding(<<3, 4, 0>>)} :
            call' = [fn |-> "resolve", normalized_name |-> normalize_name(phrase),
                     embed |-> embed, lookup |-> menu_lookup,
                     embeddings_cache |-> menu_embeddings_cache,
                     result |-> IF menu_embeddings_cache.none THEN NoneVal
                                ELSE Some(fuzzy_find(normalize_name(phrase), menu_lookup.v,
                                                     menu_embeddings_cache.v, embed))]
    /\ UNCHANGED <<session_attrs, slots, response, trace, cacheVars, now, inbound,
                   beverage_turn>>

SnapshotNext == SnapshotCall \/ Tick \/ SnapshotResolve

SnapshotSpec == Init /\ [][SnapshotNext]_vars

\* ---------------------------------------------- _fuzzy_find called directly

\* item phrases as the parsers give them
Phrases ==
    { <<Cap("coke")>>, <<W("roll")>>, <<SP, Cap("gyoza"), SP>>, <<W("cola")>>,
      <<W("spring"), SP, W("roll")>> }

\* menu_lookup of the catalog and of a catalog without drinks
Lookups ==
    { build_menu_lookup(StoreItems), build_menu_lookup(SubSeq(StoreItems, 1, 2)) }

CachedEmbedding(key, embedding) == [normalized_key |-> key, embedding |-> embedding]

\* embeddings_cache: empty, of the two catalogs, one whose roll entry lies
\* where the coke entry should, and one with a zero vector
EmbeddingCaches ==
    { <<>>,
      BuildEmbeddings(StoreItems),
      BuildEmbeddings(SubSeq(StoreItems, 1, 2)),
      << CachedEmbedding(<<W("roll")>>, <<0, 0, 1>>),
         CachedEmbedding(<<W("gyoza")>>, <<0, 1, 0>>) >>,
      << CachedEmbedding(<<W("roll")>>, <<0, 0, 0>>),
         CachedEmbedding(<<W("coke")>>, <<0, 0, 1>>) >> }

\* what genai.embed_content answers
EmbedAnswers ==
    { EmbedFails, Embedding(<<0, 3, 4>>), Embedding(<<3, 0, 4>>), Embedding(<<2, 3, 6>>),
      Embedding(<<6, 8, 0>>), Embedding(<<2, 1, 2>>), Embedding(<<-1, 0, 0>>),
      Embedding(<<0, 0, 0>>), Embedding(<<1, 2, 2>>) }

ResolverInit ==
    /\ session_attrs = EmptyMap
    /\ slots = [n \in SlotNames |-> None]
    /\ response = Resp("None", "-", Msg("-"))
    /\ trace = <<>>
    /\ menu_raw = NoneVal
    /\ menu_lookup = NoneVal
    /\ menu_embeddings_cache = NoneVal
    /\ menu_cache_timestamp = 0
    /\ now = 0
    /\ beverage_turn = FALSE
    /\ inbound = [event |-> [Event("-", "-", "None", EmptyMap)
                                EXCEPT !.session_attrs = EmptyMap],
                  env |-> Answers(Env(TRUE, <<>>, <<>>, ModFails, "MAYBE", TRUE,
                                      "UNKNOWN"))]
    /\ \E phrase \in Phrases, lookup \in Lookups, embeddings_cache \in EmbeddingCaches,
          embed \in EmbedAnswers :
            call = [fn |-> "fuzzy_find", normalized_name |-> normalize_name(phrase),
                    lookup |-> lookup, embeddings_cache |-> embeddings_cache,
                    embed |-> embed, result |-> NoneVal]

Resolve ==
    /\ call.fn = "fuzzy_find"
    /\ call.result = NoneVal
    /\ call' = [call EXCEPT !.result =
                    Some(fuzzy_find(call.normalized_name, call.lookup,
                                    call.embeddings_cache, call.embed))]
    /\ UNCHANGED <<session_attrs, slots, response, trace, cacheVars, now, inbound,
                   beverage_turn>>

ResolverSpec == ResolverInit /\ [][Resolve]_vars

\* ------------------------------------ invoke_openrouter_parser called directly

\* every variable but call as Init leaves it
Idle ==
    /\ session_attrs = EmptyMap
    /\ slots = [n \in SlotNames |-> None]
    /\ response = Resp("None", "-", Msg("-"))
    /\ trace = <<>>
    /\ menu_raw = NoneVal
    /\ menu_lookup = NoneVal
    /\ menu_embeddings_cache = NoneVal
    /\ menu_cache_timestamp = 0
    /\ now = 0
    /\ beverage_turn = FALSE
    /\ inbound = [event |-> [Event("-", "-", "None", EmptyMap)
                                EXCEPT !.session_attrs = EmptyMap],
                  env |-> Answers(Env(TRUE, <<>>, <<>>, ModFails, "MAYBE", TRUE,
                                      "UNKNOWN"))]

\* order_items lists the model may send
ElementLists ==
    { <<>>,
      << Element(<<W("roll")>>, PyInt(2), <<>>) >>,
      << Element(<<W("roll")>>, PyInt(2), <<>>), Element(<<Cap("coke")>>, PyMissing, <<>>) >>,
      << NotADict, Element(<<W("gyoza")>>, PyInt(1), <<>>) >>,
      << Element(<<>>, PyInt(1), <<>>) >>,
      << NotADict >> }

\* JSON objects: with an order_items list, without the key, and with a
\* string, a null or an object under it
JsonObjects ==
    {JObj(ItemList(l)) : l \in ElementLists}
        \cup {JObj(NoItems), JObj(ItemsOfType("string")), JObj(ItemsOfType("null")),
              JObj(ItemsOfType("object"))}

JsonValues == JsonObjects \cup {JNull, JNum, JStr(FALSE), JStr(TRUE), JArr(FALSE), JArr(TRUE)}

Completions ==
    {CallFails, NoChoices}
        \cup {Completion(Content(form, FALSE, JNull)) :
                 form \in {"none", "empty", "notstr", "prose", "unbalanced"}}
        \cup {Completion(Content("json", TRUE, v)) : v \in JsonValues}
        \cup {Completion(Content("wrapped", TRUE, v)) : v \in JsonObjects}
        \cup {Completion(Content("wrapped", FALSE, JNull))}

UserTexts == {Text, <<W("two"), SP, W("rolls")>>, <<>>}

ParserInit ==
    /\ Idle
    /\ \E user_text \in UserTexts, completion \in Completions :
            call = [fn |-> "invoke_openrouter_parser", user_text |-> user_text,
                    completion |-> completion, result |-> NoneVal]

Parse ==
    /\ call.fn = "invoke_openrouter_parser"
    /\ call.result = NoneVal
    /\ call' = [call EXCEPT !.result =
                    Some(invoke_openrouter_parser(call.user_text, call.completion))]
    /\ UNCHANGED <<session_attrs, slots, response, trace, cacheVars, now, inbound,
                   beverage_turn>>

ParserSpec == ParserInit /\ [][Parse]_vars

\* ------------------------------------------- orders edited by modifications

EditParserOutcomes ==
    { << Asked(Element(<<W("roll")>>, PyInt(2), <<>>), EmbedFails),
         Asked(Element(<<Cap("coke")>>, PyInt(1), <<>>), EmbedFails) >>,
      << Asked(Element(<<W("beef"), SP, W("gyoza")>>, PyInt(1), <<>>), Embedding(<<0, 4, 3>>)),
         Asked(Element(<<W("gyoza")>>, PyInt(2), << <<<<W("style")>>, <<W("fried")>>>> >>),
               EmbedFails) >> }

EditDrinkOutcomes ==
    { << Asked(Element(<<W("cola")>>, PyInt(2), <<>>), Embedding(<<0, 3, 4>>)) >> }

\* change lists of one remove or one update: names that resolve exactly, by
\* similarity, below the cutoff, and not at all
EditOutcomes ==
    { Changes(<< Change("remove", <<W("ramen")>>, PyMissing, None, None, EmbedFails) >>),
      Changes(<< Change("remove", <<W("udon")>>, PyMissing, None, None,
                        Embedding(<<-1, 0, 0>>)) >>),
      Changes(<< Change("remove", <<W("cola")>>, PyMissing, None, None,
                        Embedding(<<0, 3, 4>>)) >>),
      Changes(<< Change("remove", <<>>, PyMissing, None, None, EmbedFails) >>),
      Changes(<< Change("update", None, PyMissing, <<W("gyoza")>>, <<Cap("roll")>>,
                        EmbedFails) >>),
      Changes(<< Change("update", None, PyMissing, <<W("roll")>>, <<W("ramen")>>,
                        EmbedFails) >>),
      Changes(<< Change("update", None, PyMissing, <<W("ramen")>>, <<W("roll")>>,
                        EmbedFails) >>),
      Changes(<< Change("update", None, PyMissing, <<W("coke")>>, <<W("gyoza")>>,
                        EmbedFails) >>) }

EditDialogTurn == DialogTurnOf(EditParserOutcomes, EditDrinkOutcomes)

EditTurn == ModifyTurnOf(EditOutcomes)

EditNext == EditDialogTurn \/ EditTurn

EditSpec == Init /\ [][EditNext]_vars

\* ------------------------ modifications over a store that loses a row

\* what menu_table.scan() gives once the cache has expired: the catalog, the
\* catalog without its drink, or a failure
StoreScans ==
    IF NeedsRefresh(Cache, FALSE, now)
    THEN { Scan(TRUE), [Scan(TRUE) EXCEPT !.items = SubSeq(StoreItems, 1, 2)], Scan(FALSE) }
    ELSE { Scan(TRUE) }

StoreModifyTurn ==
    \E confirmation_state \in ConfirmationStates,
       mod \in (IF Has(session_attrs, "parsedOrder") THEN ShortModOutcomes ELSE {ModFails}),
       scan \in StoreScans :
        Invoke(Event("ModifyOrderIntent", "DialogCodeHook", confirmation_state, EmptyMap),
               [Env(scan.ok, <<>>, <<>>, mod, "MAYBE", TRUE, "UNKNOWN") EXCEPT !.scan = scan])

StoreNext == EditDialogTurn \/ StoreModifyTurn \/ LongPause

StoreSpec == Init /\ [][StoreNext]_vars

\* ------------------------- _check_if_option_in_item_name called directly

\* a row whose first group has a choice of two words and whose groups share
\* no choice with each other, but one with the gyoza row
BowlRow ==
    [ItemName |-> <<Cap("bowl")>>, Category |-> <<Cap("food")>>,
     Price |-> [dec |-> TRUE, n |-> 8], ItemNumber |-> [dec |-> TRUE, n |-> 4],
     Options |-> << [name |-> <<Cap("spice")>>, required |-> TRUE,
                     items |-> <<[name |-> <<W("mild")>>],
                                 [name |-> <<Cap("extra"), SP, W("spicy")>>],
                                 [name |-> <<W("spicy")>>]>>],
                    [name |-> <<Cap("topping")>>, required |-> FALSE,
                     items |-> <<[name |-> <<W("egg")>>],
                                 [name |-> <<W("beef")>>]>>] >>,
     ItemEmbedding |-> Some(<<1, 0, 0>>)]

DetectEntries == {MenuEntry(StoreItems[2]), MenuEntry(BowlRow)}

PhraseWords ==
    {W("beef"), Cap("vegetable"), W("spicy"), W("extra"), W("egg"), W("mild"),
     W("beefy"), W("gyoza")}

\* phrases of one to three words, a blank between them
DetectPhrases ==
    {<<a>> : a \in PhraseWords}
        \cup {<<a, SP, b>> : a, b \in PhraseWords}
        \cup {<<a, SP, b, TAB, c>> : a \in {W("beef"), W("extra"), W("mild")},
                                     b, c \in PhraseWords}

DetectInit ==
    /\ Idle
    /\ \E parsed_name \in DetectPhrases, menu_entry \in DetectEntries :
            call = [fn |-> "check_if_option_in_item_name", parsed_name |-> parsed_name,
                    menu_entry |-> menu_entry, result |-> NoneVal]

Detect ==
    /\ call.fn = "check_if_option_in_item_name"
    /\ call.result = NoneVal
    /\ call' = [call EXCEPT !.result =
                    Some(check_if_option_in_item_name(call.parsed_name, call.menu_entry))]
    /\ UNCHANGED <<session_attrs, slots, response, trace, cacheVars, now, inbound,
                   beverage_turn>>

DetectSpec == DetectInit /\ [][Detect]_vars

\* --------------------------------------- _normalize_options called directly

\* a row whose first group's key contains the key of its second group
PlatterRow ==
    [ItemName |-> <<Cap("platter")>>, Category |-> <<Cap("food")>>,
     Price |-> [dec |-> TRUE, n |-> 12], ItemNumber |-> [dec |-> TRUE, n |-> 5],
     Options |-> << [name |-> <<Cap("extra"), SP, Cap("sauce")>>, required |-> FALSE,
                     items |-> <<[name |-> <<W("hot")>>]>>],
                    [name |-> <<Cap("sauce")>>, required |-> TRUE,
                     items |-> <<[name |-> <<W("soy")>>],
                                 [name |-> <<W("hot")>>]>>] >>,
     ItemEmbedding |-> Some(<<1, 0, 0>>)]

\* the same groups declared the other way round
TrayRow ==
    [PlatterRow EXCEPT !.ItemName = <<Cap("tray")>>,
                       !.Options = <<PlatterRow.Options[2], PlatterRow.Options[1]>>]

ReconcileEntries == {MenuEntry(StoreItems[2]), MenuEntry(PlatterRow), MenuEntry(TrayRow)}

SuppliedKeys ==
    {<<W("sauce")>>, <<Cap("sauce")>>, <<W("extra"), SP, W("sauce")>>, <<W("extra")>>,
     <<W("size")>>, <<>>, <<Cap("style")>>, <<SP, W("sauce")>>}

SuppliedValues == {<<W("soy")>>, <<W("hot")>>}

\* mappings of one or two supplied keys
SuppliedOptions ==
    {<< <<k, v>> >> : k \in SuppliedKeys, v \in SuppliedValues}
        \cup {<< <<k[1], v[1]>>, <<k[2], v[2]>> >> :
                  k \in {kk \in SuppliedKeys \X SuppliedKeys : kk[1] # kk[2]},
                  v \in SuppliedValues \X SuppliedValues}

ReconcileInit ==
    /\ Idle
    /\ \E detected_options \in SuppliedOptions, menu_entry \in ReconcileEntries :
            call = [fn |-> "normalize_options", detected_options |-> detected_options,
                    menu_entry |-> menu_entry, result |-> NoneVal]

Reconcile ==
    /\ call.fn = "normalize_options"
    /\ call.result = NoneVal
    /\ call' = [call EXCEPT !.result =
                    Some(normalize_options(call.detected_options, call.menu_entry))]
    /\ UNCHANGED <<session_attrs, slots, response, trace, cacheVars, now, inbound,
                   beverage_turn>>

ReconcileSpec == ReconcileInit /\ [][Reconcile]_vars

\* ------------------------------ order lists with elements that are no objects

MixedParserOutcomes ==
    { << Asked(NotADict, EmbedFails),
         Asked(Element(<<W("roll")>>, PyInt(2), <<>>), EmbedFails) >>,
      << Asked(Element(<<W("roll")>>, PyInt(1), <<>>), EmbedFails),
         Asked(NotADict, EmbedFails),
         Asked(Element(<<Cap("coke")>>, PyInt(3), <<>>), EmbedFails) >>,
      << Asked(Element(<<W("ramen")>>, PyInt(1), <<>>), EmbedFails),
         Asked(NotADict, EmbedFails),
         Asked(Element(<<>>, PyInt(1), <<>>), EmbedFails),
         Asked(Element(<<W("gyoza")>>, PyMissing, <<>>), EmbedFails) >>,
      << Asked(NotADict, EmbedFails), Asked(NotADict, EmbedFails) >>,
      << Asked(Element(<<W("gyoza")>>, PyInt(1), <<>>), EmbedFails) >> }

MixedDrinkOutcomes ==
    { << Asked(NotADict, EmbedFails),
         Asked(Element(<<W("coke")>>, PyInt(1), <<>>), EmbedFails) >>,
      << Asked(Element(<<W("water")>>, PyInt(1), <<>>), EmbedFails) >> }

MixedDialogTurn == DialogTurnOf(MixedParserOutcomes, MixedDrinkOutcomes)

MixedSpec == Init /\ [][MixedDialogTurn]_vars

\* -------------------------------------------- _normalize_name called directly

Tokens == {W("a"), Cap("a"), W("b"), SP, TAB}

\* the strings of at most MaxLen tokens, and None for a value that is no string
NormalizerInputs ==
    {None} \cup UNION {[1..n -> Tokens] : n \in 0..MaxLen}

NormalizerInit ==
    /\ Idle
    /\ \E s \in NormalizerInputs :
            call = [fn |-> "normalize_name", s |-> s, result |-> NoneVal]

\* the normalizer applied, and applied again to what it gave
Normalize ==
    /\ call.fn = "normalize_name"
    /\ call.result = NoneVal
    /\ call' = [call EXCEPT !.result =
                    Some([once |-> normalize_name(call.s),
                          twice |-> normalize_name(normalize_name(call.s))])]
    /\ UNCHANGED <<session_attrs, slots, response, trace, cacheVars, now, inbound,
                   beverage_turn>>

NormalizerSpec == NormalizerInit /\ [][Normalize]_vars

\* ----------------------------------------------------------------- claims

\* the last invocation was a dialog turn of the OrderFood intent
DialogHook ==
    /\ inbound.event.intent_name = "OrderFood"
    /\ inbound.event.invocation_source = "DialogCodeHook"

Confirmed == DialogHook /\ inbound.event.confirmation_state = "Confirmed"
Denied == DialogHook /\ inbound.event.confirmation_state = "Denied"
Undecided == DialogHook /\ inbound.event.confirmation_state = "None"

Returned == response.type \notin {"None", "Raised"}
Went(block) == \E i \in DOMAIN trace : trace[i].block = block
Found(block) == trace[CHOOSE i \in DOMAIN trace : trace[i].block = block].order
CatalogAtHand == inbound.env.scan
Sent(slot) == Truthy(Get(inbound.event.slots, slot, None))
OrderSent == OrderOf(inbound.event.session_attrs)
Order == OrderOf(session_attrs)

\* C1: whatever the session holds, a dialog turn with confirmation state
\* Denied returns ElicitSlot(OrderQuery), an empty session attribute map and
\* the OrderQuery, DrinkQuery and OptionChoice slots cleared.
C1_DeniedStartsOver ==
    Denied =>
        /\ response.type = "ElicitSlot"
        /\ response.slotToElicit = "OrderQuery"
        /\ session_attrs = EmptyMap
        /\ \A n \in {"OrderQuery", "DrinkQuery", "OptionChoice"} :
               n \in DOMAIN slots /\ slots[n] = None

\* a denied turn on a session holding an order, a pending option and slots
C1_Witness ==
    /\ Denied
    /\ OrderSent # <<>>
    /\ Has(inbound.event.session_attrs, "currentItemToConfigure")
    /\ Sent("OrderQuery")
    /\ response.slotToElicit = "OrderQuery"
    /\ session_attrs = EmptyMap

Rows == {StoreItems[i] : i \in DOMAIN StoreItems}
RowOf(key) == CHOOSE r \in Rows : normalize_name(r.ItemName) = key
Listed(key) == \E r \in Rows : normalize_name(r.ItemName) = key

\* the required groups of the item's row, in declaration order, that the
\* line item gives no value for
RequiredMissing(item) ==
    SelectSeq(RowOf(Key(item)).Options,
              LAMBDA g : g.required /\ ~DictHas(Options(item), g.name))

IsUnresolved(item) == ~Truthy(Key(item))
Unresolved(order) == {i \in DOMAIN order : IsUnresolved(order[i])}
Lacking(order) ==
    {i \in DOMAIN order : ~IsUnresolved(order[i]) /\ RequiredMissing(order[i]) # <<>>}
First(S) == CHOOSE i \in S : \A j \in S : i <= j

\* C4: a validation pass that finds an unresolved line item answers
\* ElicitSlot(OrderQuery) naming the first unresolved item in list order, and
\* ends the turn there: no option is flagged, no drink is asked or processed
\* and nothing is summarised (the catalog being at hand).
C4_UnresolvedAskedFirst ==
    (Went("validate") /\ CatalogAtHand /\ Unresolved(Found("validate")) # {}) =>
        /\ response.type = "ElicitSlot"
        /\ response.slotToElicit = "OrderQuery"
        /\ response.message.kind = "could not find item"
        /\ response.message.item =
               Found("validate")[First(Unresolved(Found("validate")))].item_name
        /\ trace[Len(trace)].block = "validate"
        /\ Order = Found("validate")
        /\ ~Has(session_attrs, "currentItemToConfigure")
        /\ ~Has(session_attrs, "optionToConfigure")

\* an order whose first line item lacks a required option and whose second
\* is unresolved: the unresolved one is asked about
C4_Witness ==
    /\ Went("validate") /\ CatalogAtHand
    /\ Len(Order) = 2
    /\ Lacking(Order) = {1}
    /\ Unresolved(Order) = {2}
    /\ response.slotToElicit = "OrderQuery"
    /\ response.message.item = Order[2].item_name

\* C5: a validation pass that finds no unresolved line item and some resolved
\* one lacking a required option group answers ElicitSlot(OptionChoice) for
\* the first such line item and its first missing required group in
\* declaration order, lists that group's choices in declaration order, and
\* leaves the line item's snapshot under currentItemToConfigure and the
\* group's display name under optionToConfigure (the catalog being at hand).
C5_FirstMissingOptionAsked ==
    (/\ Went("validate") /\ CatalogAtHand
     /\ Unresolved(Found("validate")) = {}
     /\ Lacking(Found("validate")) # {}) =>
        LET ni == Found("validate")[First(Lacking(Found("validate")))]
            g == RequiredMissing(ni)[1]
        IN  /\ response.type = "ElicitSlot"
            /\ response.slotToElicit = "OptionChoice"
            /\ response.message.kind = "which option"
            /\ response.message.item = ni.item_name
            /\ response.message.option = g.name
            /\ response.message.choices =
                   [j \in 1..Len(g.items) |-> normalize_name(g.items[j].name)]
            /\ Has(session_attrs, "currentItemToConfigure")
            /\ session_attrs["currentItemToConfigure"] = DumpsItem(ni)
            /\ Has(session_attrs, "optionToConfigure")
            /\ session_attrs["optionToConfigure"] = g.name

\* two different line items lack a required group; the first is flagged, for
\* a group that is neither the first its row declares nor the first required
C5_Witness ==
    /\ Went("validate") /\ CatalogAtHand
    /\ Lacking(Order) = {1, 2}
    /\ Order[1] # Order[2]
    /\ Has(session_attrs, "currentItemToConfigure")
    /\ session_attrs["currentItemToConfigure"] = DumpsItem(Order[1])
    /\ session_attrs["optionToConfigure"] = RowOf(Key(Order[1])).Options[3].name
    /\ RowOf(Key(Order[1])).Options[2].required
    /\ response.slotToElicit = "OptionChoice"

\* C7: a turn that receives the parse-complete flag does not call the order
\* parser on the OrderQuery text, whatever slots it carries, and the flag
\* stays in the session until a reset empties the session attributes; so
\* between resets the initial parse happens at most once.
C7_ParsedOncePerSession ==
    /\ [](Has(inbound.event.session_attrs, "initialParseComplete") => ~Went("parse"))
    /\ [][Has(session_attrs, "initialParseComplete") =>
              (Has(session_attrs', "initialParseComplete") \/ session_attrs' = EmptyMap)]_vars

\* a later turn carries order text again, and goes on without parsing it
C7_Witness ==
    /\ Undecided
    /\ Has(inbound.event.session_attrs, "initialParseComplete")
    /\ Sent("OrderQuery")
    /\ inbound.event.slots["DrinkQuery"] = None
    /\ Went("validate")
    /\ ~Went("parse")
    /\ Order = OrderSent

\* the drink parser's answer holds an item whose quantity is no integer
BadDrinkQuantity ==
    \E i \in DOMAIN inbound.env.drink :
        /\ inbound.env.drink[i].el.isdict
        /\ Truthy(inbound.env.drink[i].el.item_name)
        /\ inbound.env.drink[i].el.quantity.t = "bad"

Summarised ==
    /\ response.type = "ConfirmIntent"
    /\ response.message.kind = "is that correct"
    /\ Len(response.message.parts) = Len(Order)

ScenarioA(parse) ==
    /\ \A i \in DOMAIN parse :
           /\ parse[i].el.isdict
           /\ parse[i].el.quantity.t = "int"
           /\ Listed(normalize_name(parse[i].el.item_name))
           /\ \A j \in DOMAIN RowOf(normalize_name(parse[i].el.item_name)).Options :
                  ~RowOf(normalize_name(parse[i].el.item_name)).Options[j].required
    /\ \E i \in DOMAIN parse :
           RowOf(normalize_name(parse[i].el.item_name)).Category = <<Cap("food")>>
    /\ \E i \in DOMAIN parse :
           RowOf(normalize_name(parse[i].el.item_name)).Category = <<Cap("drink")>>

\* C10: on the first order turn (order text only), when the parser yields
\* scenario A, the OrderDocument has one line item per parsed item, in parse
\* order, with the row's name and key and the parsed quantity, and the same
\* turn goes from parse through validation to the summary and ConfirmIntent.
C10_ScenarioA ==
    (/\ Went("parse") /\ CatalogAtHand
     /\ ~Sent("DrinkQuery")
     /\ ScenarioA(inbound.env.parse)) =>
        /\ Len(Order) = Len(inbound.env.parse)
        /\ \A i \in DOMAIN Order :
               /\ Key(Order[i]) = normalize_name(inbound.env.parse[i].el.item_name)
               /\ Order[i].item_name = RowOf(Key(Order[i])).ItemName
               /\ Order[i].quantity = inbound.env.parse[i].el.quantity
        /\ [i \in DOMAIN trace |-> trace[i].block] = <<"parse", "validate", "summary">>
        /\ Summarised
        /\ \A i \in DOMAIN Order :
               response.message.parts[i].quantity = inbound.env.parse[i].el.quantity

\* two rolls and one coke
C10_Witness ==
    /\ Went("parse") /\ CatalogAtHand
    /\ ~Sent("DrinkQuery")
    /\ ScenarioA(inbound.env.parse)
    /\ Len(Order) = 2
    /\ Order[1].quantity = PyInt(2)
    /\ Order[2].quantity = PyInt(1)
    /\ response.type = "ConfirmIntent"

HoldsFood(order) ==
    \E i \in DOMAIN order :
        ~IsUnresolved(order[i]) /\ RowOf(Key(order[i])).Category = <<Cap("food")>>
HoldsDrink(order) ==
    \E i \in DOMAIN order :
        ~IsUnresolved(order[i]) /\ RowOf(Key(order[i])).Category = <<Cap("drink")>>

\* the validation pass asked the drink up-sell question
UpSell ==
    /\ response.type = "ElicitSlot"
    /\ response.slotToElicit = "DrinkQuery"
    /\ response.message.kind = "anything to drink"

\* C8: the drink up-sell question is asked only when the order holds food,
\* holds no drink, and no drink turn has been processed in the session: once
\* a drink turn has been processed no later turn asks it again.
C8_UpSellAskedOnce ==
    UpSell => (HoldsFood(Order) /\ ~HoldsDrink(Order) /\ ~beverage_turn)

\* C6: when a pending-option snapshot is in the session and the turn supplies
\* an OptionChoice value, the option-apply step maps the pending option name
\* to that value on the line item that was flagged (the first line item equal
\* to the snapshot, which is the one the validation pass flagged), changes no
\* other line item, removes both markers (the validation pass of the same
\* turn may set them anew when it asks for the next option), and the
\* validation pass runs in the same turn.
C6_OptionSetOnFlaggedItem ==
    (Went("option") /\ CatalogAtHand /\ Returned) =>
        LET snapshot == LoadsItem(inbound.event.session_attrs["currentItemToConfigure"])
            option_name == inbound.event.session_attrs["optionToConfigure"]
            before == OrderSent
            after == Found("validate")
        IN  /\ Went("validate")
            /\ Len(after) = Len(before)
            /\ \E f \in DOMAIN before :
                   /\ before[f] = snapshot
                   /\ \A j \in 1..(f - 1) : before[j] # snapshot
                   /\ DictHas(Options(after[f]), option_name)
                   /\ DictValue(Options(after[f]), option_name) =
                          inbound.event.slots["OptionChoice"]
                   /\ \A i \in DOMAIN before : i # f => after[i] = before[i]
            /\ Has(session_attrs, "currentItemToConfigure") =>
                   response.slotToElicit = "OptionChoice"
            /\ Has(session_attrs, "optionToConfigure") =>
                   response.slotToElicit = "OptionChoice"

\* the parser's element names a row of the table, or the embedding service
\* answers with a vector within the cutoff of some row's
Resolves(asked) ==
    /\ asked.el.isdict
    /\ Truthy(asked.el.item_name)
    /\ \/ Listed(normalize_name(asked.el.item_name))
       \/ /\ asked.embed.ok
          /\ \E r \in Rows :
                 /\ ~r.ItemEmbedding.none
                 /\ Norm(asked.embed.v) * Norm(r.ItemEmbedding.v) # 0
                 /\ 5 * Dot(asked.embed.v, r.ItemEmbedding.v) >=
                        3 * Norm(asked.embed.v) * Norm(r.ItemEmbedding.v)

\* the parser's answer can be normalized: every quantity converts
Converts(parse) ==
    \A i \in DOMAIN parse :
        (parse[i].el.isdict /\ Truthy(parse[i].el.item_name)) => parse[i].el.quantity.t # "bad"

\* the turn ran with the fallback-order flag in its session attributes
FallbackFlagged ==
    \/ Has(inbound.event.session_attrs, "is_fallback_order")
    \/ inbound.event.intent_name = "FallbackIntent" /\ inbound.env.classify = "ORDER"

SlotsCleared ==
    \A n \in {"OrderQuery", "DrinkQuery", "OptionChoice"} :
        n \in DOMAIN slots /\ slots[n] = None

\* C11: an initial parse that runs with the fallback-order flag set and
\* resolves none of the parsed items (the parse itself completing) returns
\* ElicitSlot(OrderQuery) with an empty session attribute map and the slots
\* cleared: no order, parse-complete flag or fallback flag is stored.
C11_FallbackWithoutItemsResets ==
    (/\ Went("parse") /\ FallbackFlagged /\ CatalogAtHand
     /\ Converts(inbound.env.parse)
     /\ \A i \in DOMAIN inbound.env.parse : ~Resolves(inbound.env.parse[i])) =>
        /\ response.type = "ElicitSlot"
        /\ response.slotToElicit = "OrderQuery"
        /\ response.message.kind = "no menu items recognized"
        /\ session_attrs = EmptyMap
        /\ SlotsCleared

\* a fallback utterance classified as an order, whose only parsed item is
\* not on the menu
C11_Witness ==
    /\ Went("parse")
    /\ inbound.event.intent_name = "FallbackIntent"
    /\ Len(inbound.env.parse) = 1
    /\ ~Resolves(inbound.env.parse[1])
    /\ response.message.kind = "no menu items recognized"
    /\ session_attrs = EmptyMap

\* C12: a dialog turn with no confirmation state, no OrderQuery value and no
\* order in the session returns ElicitSlot(OrderQuery) with the session
\* attributes it received, and enters none of the blocks that call the
\* parser, the resolver or the catalog.
C12_AsksForOrder ==
    (/\ Undecided
     /\ ~Sent("OrderQuery")
     /\ ~Has(inbound.event.session_attrs, "parsedOrder")) =>
        /\ response.type = "ElicitSlot"
        /\ response.slotToElicit = "OrderQuery"
        /\ response.message.kind = "what would you like to order"
        /\ session_attrs = inbound.event.session_attrs
        /\ trace = <<>>

\* such a turn in a session that holds attributes other than an order
C12_Witness ==
    /\ Undecided
    /\ ~Sent("OrderQuery")
    /\ ~Has(inbound.event.session_attrs, "parsedOrder")
    /\ inbound.event.session_attrs # EmptyMap
    /\ response.slotToElicit = "OrderQuery"
    /\ session_attrs = inbound.event.session_attrs

\* C13: no failure leaves lambda_handler: every invocation, whatever the
\* collaborators answer, ends with a response to the host.
C13_EveryInvocationAnswers ==
    response.type # "Raised"

\* the three cases in which an order is to be discarded
ExplicitDenial == response.type = "ElicitSlot" /\ response.message.kind = "start over"
ParseFailure == response.type = "Close" /\ response.message.kind = "trouble understanding"
FulfillmentClose == response.type = "Close" /\ response.message.kind = "order placed"

\* C14: a turn that receives an order and returns a response drops the order
\* from the session exactly when it is an explicit denial, a parse failure or
\* fulfillment closing the dialog.
C14_OrderDroppedExactlyOnResetOrFulfillment ==
    (Has(inbound.event.session_attrs, "parsedOrder") /\ Returned) =>
        (~Has(session_attrs, "parsedOrder")
            <=> (ExplicitDenial \/ ParseFailure \/ FulfillmentClose))

\* C15: every line item of the stored order has an integer quantity of at
\* least one.
C15_StoredQuantitiesPositive ==
    \A i \in DOMAIN Order : Order[i].quantity.t = "int" /\ Order[i].quantity.v >= 1

\* a direct call of get_menu, and the cache it found
MenuCalled == call.fn = "get_menu"
LoadedBefore == ~call.before.raw.none
WithinTTL == LoadedBefore /\ call.t - call.before.ts <= menu_cache_ttl_seconds
Expired == call.t - call.before.ts > menu_cache_ttl_seconds

\* C16: get_menu(False) within the TTL of a successful load reads nothing and
\* returns the snapshot held; a forced call, a call on an empty cache and a
\* call after the TTL make one bulk read, and one that succeeds stamps the
\* time of the call; a returned snapshot is never older than the TTL.
C16_CachedWithinTTL ==
    MenuCalled =>
        /\ (~call.force_refresh /\ WithinTTL) =>
                /\ ~call.read /\ ~call.raised
                /\ Cache = call.before
                /\ call.returned = Some(Snapshot(call.before))
        /\ (call.force_refresh \/ ~LoadedBefore \/ Expired) =>
                /\ call.read
                /\ call.scan_ok => (~call.raised /\ menu_cache_timestamp = call.t)
        /\ ~call.raised => call.t - menu_cache_timestamp <= menu_cache_ttl_seconds

\* a call at the last instant of the TTL window, while the store holds another catalog
C16_Witness ==
    /\ MenuCalled /\ ~call.force_refresh /\ LoadedBefore
    /\ call.t - call.before.ts = menu_cache_ttl_seconds
    /\ call.scanned # Len(call.before.raw.v)
    /\ ~call.read /\ call.returned = Some(Snapshot(call.before))

\* a call just after the window, which reads and stamps
C16_WitnessExpired ==
    /\ MenuCalled /\ ~call.force_refresh /\ LoadedBefore
    /\ call.t - call.before.ts = menu_cache_ttl_seconds + 1
    /\ call.read /\ ~call.raised /\ menu_cache_timestamp = call.t
    /\ Snapshot(Cache) # Snapshot(call.before)

\* C17: when the bulk read of a refresh fails, get_menu raises, and the cache
\* is left as it was before the call.
C17_FailedRefreshKeepsSnapshot ==
    (MenuCalled /\ call.read /\ ~call.scan_ok) =>
        /\ call.raised
        /\ Cache = call.before

C17_Witness ==
    /\ MenuCalled /\ call.read /\ ~call.scan_ok /\ LoadedBefore
    /\ call.before.ts > 0
    /\ call.raised /\ Cache = call.before

\* a direct call of the resolver that has returned
Resolved == call.fn = "fuzzy_find" /\ call.result # NoneVal
ExactKey == call.normalized_name \in DOMAIN call.lookup

\* cosine similarity of the query with cached entry i, as numerator and
\* denominator; entries with a zero norm have no score
SimNum(i) == Dot(call.embed.v, call.embeddings_cache[i].embedding)
SimDen(i) == Norm(call.embed.v) * Norm(call.embeddings_cache[i].embedding)
Scored == {i \in DOMAIN call.embeddings_cache : SimDen(i) # 0}
IsBest(b) ==
    /\ b \in Scored
    /\ \A j \in Scored :
          /\ SimNum(b) * SimDen(j) >= SimNum(j) * SimDen(b)
          /\ j < b => SimNum(b) * SimDen(j) > SimNum(j) * SimDen(b)
AtCutoff(b) == SimNum(b) * cutoff[2] = cutoff[1] * SimDen(b)
MeetsCutoff(b) == SimNum(b) * cutoff[2] >= cutoff[1] * SimDen(b)

\* C18: a phrase whose normalized form is a key of the lookup resolves to
\* that key with score 1, and the embedding service is not invoked.
C18_ExactMatchWins ==
    (Resolved /\ ExactKey) =>
        /\ call.result.v.key = call.normalized_name
        /\ call.result.v.score = <<1, 1>>
        /\ ~call.result.v.embedded

\* an exact match while a cached entry of another key scores above the cutoff
C18_Witness ==
    /\ Resolved /\ ExactKey /\ call.embed.ok
    /\ \E b \in Scored :
          /\ IsBest(b) /\ MeetsCutoff(b)
          /\ call.embeddings_cache[b].normalized_key # call.normalized_name
    /\ call.result.v.key = call.normalized_name
    /\ ~call.result.v.embedded

\* C19: without an exact match, the resolver returns the best-scoring key and
\* its score if and only if that score is at least the cutoff; otherwise, and
\* when no embeddings are cached, it returns no match with score 0.
C19_CutoffInclusive ==
    (Resolved /\ ~ExactKey /\ call.embed.ok) =>
        IF \E b \in Scored : IsBest(b) /\ MeetsCutoff(b)
        THEN \A b \in Scored : IsBest(b) =>
                /\ call.result.v.key = call.embeddings_cache[b].normalized_key
                /\ call.result.v.score[1] * SimDen(b) = SimNum(b) * call.result.v.score[2]
        ELSE /\ call.result.v.key = None
             /\ call.result.v.score = <<0, 1>>

\* a best score exactly at the cutoff
C19_Witness ==
    /\ Resolved /\ ~ExactKey /\ call.embed.ok
    /\ \E b \in Scored :
          /\ IsBest(b) /\ AtCutoff(b)
          /\ call.result.v.key = call.embeddings_cache[b].normalized_key

\* a best score below the cutoff, and an empty embeddings list
C19_WitnessBelow ==
    /\ Resolved /\ ~ExactKey /\ call.embed.ok
    /\ \E b \in Scored : IsBest(b) /\ ~MeetsCutoff(b) /\ SimNum(b) > 0
    /\ call.result.v.key = None

C19_WitnessEmpty ==
    /\ Resolved /\ ~ExactKey /\ call.embed.ok
    /\ call.embeddings_cache = <<>>
    /\ call.result.v.key = None

\* a phrase without an exact match for which the embedding service failed
EmbedFailed(asked) ==
    /\ asked.el.isdict
    /\ Truthy(asked.el.item_name)
    /\ ~Listed(normalize_name(asked.el.item_name))
    /\ ~asked.embed.ok

KeptUnresolved(asked) ==
    \E j \in Unresolved(Order) : Order[j].item_name = asked.el.item_name

AsksToClarify ==
    /\ response.type = "ElicitSlot"
    /\ response.slotToElicit = "OrderQuery"
    /\ response.message.kind = "could not find item"
    /\ Unresolved(Order) # {}
    /\ response.message.item = Order[First(Unresolved(Order))].item_name

\* the initial parse keeps the phrase and the turn asks to clarify
ParseKeepsUnresolved ==
    (Went("parse") /\ CatalogAtHand /\ Converts(inbound.env.parse)) =>
        \A i \in DOMAIN inbound.env.parse :
            EmbedFailed(inbound.env.parse[i]) =>
                KeptUnresolved(inbound.env.parse[i]) /\ AsksToClarify

\* the drink turn keeps the phrase and the turn asks to clarify
DrinkKeepsUnresolved ==
    (Went("drink") /\ CatalogAtHand /\ Converts(inbound.env.drink)) =>
        \A i \in DOMAIN inbound.env.drink :
            EmbedFailed(inbound.env.drink[i]) =>
                KeptUnresolved(inbound.env.drink[i]) /\ AsksToClarify

\* C20: when the embedding service fails on a phrase without an exact match,
\* the turn returns a response, the phrase is kept in the order as an
\* unresolved line item and the turn asks the user to clarify it, in the
\* initial parse and in the drink turn alike.
C20_EmbeddingFailureAsksToClarify == ParseKeepsUnresolved /\ DrinkKeepsUnresolved

\* a group is satisfied by a key that normalizes to its key or is its display name
Satisfies(k, g) == normalize_name(k) = normalize_name(g.name) \/ k = g.name
Satisfied(item, g) == \E k \in DictKeys(Options(item)) : Satisfies(k, g)
Unsatisfied(item) ==
    SelectSeq(RowOf(Key(item)).Options, LAMBDA g : g.required /\ ~Satisfied(item, g))
Wanting(order) ==
    {i \in DOMAIN order : ~IsUnresolved(order[i]) /\ Unsatisfied(order[i]) # <<>>}

KeysCanonical ==
    \A i \in DOMAIN Order : ~IsUnresolved(Order[i]) =>
        \A k \in DictKeys(Options(Order[i])) :
            \A j \in DOMAIN RowOf(Key(Order[i])).Options :
                normalize_name(k) = normalize_name(RowOf(Key(Order[i])).Options[j].name)
                    => k = RowOf(Key(Order[i])).Options[j].name

\* a direct call of the order parser that has returned
Parsed == call.fn = "invoke_openrouter_parser" /\ call.result # NoneVal

\* the answer is a message whose text is, or wraps, a JSON object with a
\* list under order_items
Usable ==
    /\ call.completion.kind = "message"
    /\ \/ call.completion.content.form = "json"
       \/ call.completion.content.form = "wrapped" /\ call.completion.content.valid
    /\ call.completion.content.value.t = "object"
    /\ call.completion.content.value.items.t = "list"

\* C22: the order parser never raises, and gives an empty item list whenever
\* the answer is not usable: no JSON, a JSON value that is no object, an
\* object without order_items or with one that is no list, a failed call.
C22_ParserDegradesToEmpty ==
    Parsed =>
        /\ ~call.result.v.raised
        /\ ~Usable => call.result.v.order_items = <<>>
        /\ Usable => call.result.v.order_items = call.completion.content.value.items.v

\* a JSON array that holds the string order_items, on which .get raises inside
C22_Witness ==
    /\ Parsed
    /\ call.completion.content.form = "json"
    /\ call.completion.content.value = JArr(TRUE)
    /\ ~call.result.v.raised
    /\ call.result.v.order_items = <<>>

\* a modification turn whose changes were applied to the order received
Modifying ==
    /\ inbound.event.intent_name = "ModifyOrderIntent"
    /\ Has(inbound.event.session_attrs, "parsedOrder")
    /\ inbound.env.mod.ok
    /\ CatalogAtHand
    /\ Returned
    /\ inbound.event.confirmation_state # "Denied"
TheChange == inbound.env.mod.changes[1]
NameResolves(name, embed) ==
    Resolves(Asked(Element(name, PyMissing, <<>>), embed))

\* C23: a remove whose item name resolves to no catalog entry leaves the
\* line-item list as it was: same items, order, quantities and options.
C23_UnresolvedRemoveKeepsOrder ==
    (/\ Modifying
     /\ Len(inbound.env.mod.changes) = 1
     /\ TheChange.action = "remove"
     /\ ~NameResolves(TheChange.item_name, TheChange.embed)) =>
        Order = OrderSent

\* a remove of a phrase the embedding service places below the cutoff, on an
\* order of two line items
C23_Witness ==
    /\ Modifying
    /\ Len(inbound.env.mod.changes) = 1
    /\ TheChange.action = "remove"
    /\ TheChange.embed.ok
    /\ ~NameResolves(TheChange.item_name, TheChange.embed)
    /\ Len(OrderSent) = 2
    /\ Order = OrderSent

\* a direct call of the normalizer that has returned
Normalized == call.fn = "normalize_name" /\ call.result # NoneVal

\* C24: normalizing a normalized string changes nothing, and a value that is
\* no string normalizes to the empty string.
C24_NormalizerIdempotent ==
    Normalized =>
        /\ call.result.v.twice = call.result.v.once
        /\ ~IsStr(call.s) => call.result.v.once = <<>>

\* a string with a capital, a leading blank and a run of blanks inside
C24_Witness ==
    /\ Normalized
    /\ call.s = <<TAB, Cap("a"), SP, TAB>> \o <<W("b")>>
    /\ call.result.v.once = <<W("a"), SP, W("b")>>
    /\ call.result.v.twice = <<W("a"), SP, W("b")>>

\* a turn routed to the question path
QuestionTurn ==
    /\ inbound.event.intent_name = "FallbackIntent"
    /\ inbound.env.classify = "QUESTION"

\* C25: a question turn in which a step of the retrieval path fails returns
\* Close with the fixed apology, and the session attributes as received.
C25_QuestionFailureApologises ==
    (QuestionTurn /\ ~inbound.env.rag_ok) =>
        /\ response.type = "Close"
        /\ response.message.kind = "error while looking up"
        /\ session_attrs = inbound.event.session_attrs

\* the retrieval path fails while an order is in progress
C25_Witness ==
    /\ QuestionTurn /\ ~inbound.env.rag_ok
    /\ Has(inbound.event.session_attrs, "parsedOrder")
    /\ OrderSent # <<>>
    /\ response.type = "Close"
    /\ Order = OrderSent

\* a single update whose names are catalog names or resolve to nothing
Updating ==
    /\ Modifying
    /\ Len(inbound.env.mod.changes) = 1
    /\ TheChange.action = "update"
    /\ ~TheChange.embed.ok
FromKey == normalize_name(TheChange.from_item)
ToKey == normalize_name(TheChange.to_item)
Holding(order, key) == {i \in DOMAIN order : Key(order[i]) = key}

\* C26: an update whose two names resolve replaces the first line item of the
\* from-key by one for the to-entry, at the same place and with the same
\* quantity, and leaves every other line item alone; when a name does not
\* resolve or no line item has the from-key, the list is unchanged.
C26_UpdateReplacesFirst ==
    Updating =>
        IF Listed(FromKey) /\ Listed(ToKey) /\ Holding(OrderSent, FromKey) # {}
        THEN /\ Len(Order) = Len(OrderSent)
             /\ \A j \in DOMAIN OrderSent :
                    IF j = First(Holding(OrderSent, FromKey))
                    THEN /\ Key(Order[j]) = ToKey
                         /\ Order[j].item_name = RowOf(ToKey).ItemName
                         /\ Order[j].quantity = OrderSent[j].quantity
                    ELSE Order[j] = OrderSent[j]
        ELSE Order = OrderSent

\* two line items of the from-key: the first is replaced, the second stays
C26_Witness ==
    /\ Updating
    /\ Listed(FromKey) /\ Listed(ToKey) /\ FromKey # ToKey
    /\ Holding(OrderSent, FromKey) = {1, 2}
    /\ OrderSent[1].quantity # OrderSent[2].quantity
    /\ Key(Order[1]) = ToKey
    /\ Order[1].quantity = OrderSent[1].quantity
    /\ Order[2] = OrderSent[2]

\* updates that change nothing: a name that does not resolve, and a from-key
\* no line item has
C26_WitnessUnchanged ==
    /\ Updating
    /\ Listed(FromKey) /\ Listed(ToKey)
    /\ Holding(OrderSent, FromKey) = {}
    /\ OrderSent # <<>>
    /\ Order = OrderSent

\* the elements of a parsed list that are objects with a non-empty item name
Named(parse) == SelectSeq(parse, LAMBDA a : a.el.isdict /\ Truthy(a.el.item_name))
HasNonObject(parse) == \E i \in DOMAIN parse : ~parse[i].el.isdict

\* C27: when the parsed list holds elements that are no objects, the parse
\* turn does not fail and the order the parse leaves to the validation pass
\* holds one line item for each object element with a non-empty item name, in
\* the order of the list.
C27_NonObjectElementsSkipped ==
    (/\ Went("parse") /\ CatalogAtHand
     /\ HasNonObject(inbound.env.parse)
     /\ Converts(inbound.env.parse)) =>
        /\ Returned
        /\ response.message.kind # "trouble understanding"
        /\ Went("validate")
        /\ Len(Found("validate")) = Len(Named(inbound.env.parse))
        /\ \A k \in DOMAIN Found("validate") :
              /\ Found("validate")[k].quantity = PyInt(IntOf(Named(inbound.env.parse)[k].el.quantity))
              /\ IF Listed(normalize_name(Named(inbound.env.parse)[k].el.item_name))
                 THEN Key(Found("validate")[k]) = normalize_name(Named(inbound.env.parse)[k].el.item_name)
                 ELSE /\ IsUnresolved(Found("validate")[k])
                      /\ Found("validate")[k].item_name = Named(inbound.env.parse)[k].el.item_name

\* an object, a non-object and an object: two line items in that order
C27_Witness ==
    /\ Went("parse") /\ CatalogAtHand
    /\ Len(inbound.env.parse) = 3
    /\ ~inbound.env.parse[2].el.isdict
    /\ Len(Order) = 2
    /\ Key(Order[1]) = <<W("roll")>>
    /\ Key(Order[2]) = <<W("coke")>>
    /\ Summarised

\* a direct call of the in-name option detection that has returned
Detected == call.fn = "check_if_option_in_item_name" /\ call.result # NoneVal
Groups == {call.menu_entry.options[j] : j \in DOMAIN call.menu_entry.options}
WholeWords ==
    {normalize_name(call.parsed_name)[i] : i \in DOMAIN normalize_name(call.parsed_name)}
        \ {SP}
\* the choices of a group that are one whole word of the phrase
Hits(g) == {j \in DOMAIN g.choices : Len(g.choices[j]) = 1 /\ g.choices[j][1] \in WholeWords}

\* C28: in-name detection records for each group of the entry the first
\* choice in declaration order that is a whole word of the normalized
\* phrase, nothing for a group without such a choice, at most one entry per
\* group, and keys that are group display names.
C28_FirstChoicePerGroup ==
    Detected =>
        /\ \A g \in Groups :
              IF Hits(g) # {}
              THEN /\ DictHas(call.result.v, g.raw_name)
                   /\ DictValue(call.result.v, g.raw_name) = g.choices[First(Hits(g))]
              ELSE ~DictHas(call.result.v, g.raw_name)
        /\ DictKeys(call.result.v) \subseteq {g.raw_name : g \in Groups}
        /\ Cardinality(DictKeys(call.result.v)) = Len(call.result.v)

\* a phrase with two choices of one group and a choice of another
C28_Witness ==
    /\ Detected
    /\ \E g \in Groups :
          /\ Cardinality(Hits(g)) = 2
          /\ DictValue(call.result.v, g.raw_name) = g.choices[First(Hits(g))]
    /\ Len(call.result.v) = 2

\* a choice of two words whose words are in the phrase is not recorded
C28_WitnessTwoWords ==
    /\ Detected
    /\ call.parsed_name = <<W("extra"), SP, W("spicy")>>
    /\ call.result.v = << <<<<Cap("spice")>>, <<W("spicy")>>>> >>

\* a direct call of the supplied-option reconciliation that has returned
Reconciled == call.fn = "normalize_options" /\ call.result # NoneVal
Declared == {call.menu_entry.options[j] : j \in DOMAIN call.menu_entry.options}
Supplied == {call.detected_options[i] : i \in DOMAIN call.detected_options}
\* the supplied pairs whose normalized key is the key of group g
Naming(g) == {p \in Supplied : normalize_name(p[1]) = g.key}
\* a supplied key that neither is nor is part of a declared key
MatchesNone(p) ==
    \A g \in Declared :
        normalize_name(p[1]) # g.key /\ ~Contains(g.key, normalize_name(p[1]))

\* every supplied key whose normalized form is a declared key ends up under
\* that group's display name
ExactUnderDisplayName ==
    \A g \in Declared :
        Naming(g) # {} =>
            /\ DictHas(call.result.v, g.raw_name)
            /\ DictValue(call.result.v, g.raw_name) \in {p[2] : p \in Naming(g)}

\* every supplied key that matches no declared group passes through unchanged
UnmatchedPassThrough ==
    \A p \in Supplied :
        MatchesNone(p) =>
            DictHas(call.result.v, p[1]) /\ DictValue(call.result.v, p[1]) = p[2]

\* the result never holds two keys that normalize to one declared group
OneKeyPerGroup ==
    /\ Cardinality(DictKeys(call.result.v)) = Len(call.result.v)
    /\ \A g \in Declared :
          Cardinality({k \in DictKeys(call.result.v) : normalize_name(k) = g.key}) <= 1

\* C29: the reconciliation puts every supplied key whose normalized form
\* equals a declared group's key under that group's display name, also when
\* another declared key contains it, passes every supplied key that matches
\* no declared group through unchanged, and never holds two keys that
\* normalize to the same declared group.
C29_ExactKeyUnderItsGroup ==
    Reconciled => ExactUnderDisplayName /\ UnmatchedPassThrough /\ OneKeyPerGroup

\* the second and third part of C29 hold of every call
C29_PassThroughAndOneKeyPerGroup ==
    Reconciled => UnmatchedPassThrough /\ OneKeyPerGroup

\* a supplied key that is a declared key is filed under that group when no
\* group declared earlier has a key that contains it
C29_ExactWinsWhenDeclaredFirst ==
    (Reconciled /\ call.menu_entry.normalized_name # <<W("platter")>>) =>
        \A g \in Declared : Naming(g) # {} => DictHas(call.result.v, g.raw_name)

\* the key of the second group is filed under the first group
C29_WitnessDiverted ==
    /\ Reconciled
    /\ call.detected_options = << <<<<W("sauce")>>, <<W("soy")>>>> >>
    /\ call.result.v = << <<<<Cap("extra"), SP, Cap("sauce")>>, <<W("soy")>>>> >>

\* a key no group knows passes through beside a key that is re-keyed
C29_WitnessPassThrough ==
    /\ Reconciled
    /\ call.detected_options =
           << <<<<W("size")>>, <<W("hot")>>>>, <<<<SP, W("sauce")>>, <<W("soy")>>>> >>
    /\ call.result.v =
           << <<<<W("size")>>, <<W("hot")>>>>, <<<<Cap("sauce")>>, <<W("soy")>>>> >>

\* the similarity of cached entry i is at least, or the same as, that of j
SimGe(i, j) == SimNum(i) * SimDen(j) >= SimNum(j) * SimDen(i)
SimTied(i, j) == SimNum(i) * SimDen(j) = SimNum(j) * SimDen(i)
\* a similarity search that has selected an entry
Selected == Resolved /\ ~ExactKey /\ call.embed.ok /\ call.result.v.key # None

\* C30: the entry the similarity search selects has the maximum similarity
\* over all cached embeddings, and of several entries that share the maximum
\* it is the one that comes first in the order of the cached list.
C30_FirstMaximumWins ==
    Selected =>
        \E b \in Scored :
            /\ call.result.v.key = call.embeddings_cache[b].normalized_key
            /\ call.result.v.score[1] * SimDen(b) = SimNum(b) * call.result.v.score[2]
            /\ \A j \in Scored : SimGe(b, j) /\ (SimTied(b, j) => b <= j)

\* two cached entries share the maximum, and the earlier one is selected
C30_Witness ==
    /\ Selected
    /\ \E b, j \in Scored :
          /\ b < j /\ SimTied(b, j)
          /\ \A i \in Scored : SimGe(b, i)
          /\ call.result.v.key = call.embeddings_cache[b].normalized_key
          /\ call.embeddings_cache[j].normalized_key # call.result.v.key

\* the maximum is at the last cached entry, after a lower score that is
\* above the cutoff
C30_WitnessLater ==
    /\ Selected
    /\ \E b, j \in Scored :
          /\ j < b /\ ~SimGe(j, b) /\ MeetsCutoff(j)
          /\ call.result.v.key = call.embeddings_cache[b].normalized_key

\* two get_menu calls running in one process
Racing == call.fn = "get_menu_race"
HasReturned(i) == call.t[i].pc = "done"
HasRefreshed(i) == ~call.t[i].items.none
\* what a lone call returns of the unchanged store
LoneSnapshot == Snapshot(Loaded(0))

\* every call returns the lookup and embeddings a lone call would return
ReturnsLoneSnapshot ==
    \A i \in Threads : HasReturned(i) => call.t[i].ret = LoneSnapshot

\* after both calls the cache is that of a single refresh, stamped with the
\* time of a call that refreshed, or the cache before when none did
FinalCacheOfOneRefresh ==
    (\A i \in Threads : HasReturned(i)) =>
        IF \E i \in Threads : HasRefreshed(i)
        THEN \E i \in Threads : HasRefreshed(i) /\ Cache = Loaded(call.t[i].at)
        ELSE Cache = call.before

\* C31: with an unchanging store, in every interleaving of two concurrent
\* get_menu calls racing a refresh, a cold start included, each call returns
\* the lookup table and embeddings list a lone call would return, and the
\* final cache is that of a single refresh.
C31_RacingCallsReturnLoneSnapshot ==
    Racing => ReturnsLoneSnapshot /\ FinalCacheOfOneRefresh

\* the final cache is that of a single refresh in every interleaving
C31_FinalCacheOfOneRefresh == Racing => FinalCacheOfOneRefresh

\* with a cache loaded before, every call returns the lone snapshot
C31_WarmCallsReturnLoneSnapshot ==
    (Racing /\ ~call.before.raw.none) => ReturnsLoneSnapshot

\* on a cold start one call refreshes and the other returns the new lookup
\* with no embeddings list
C31_WitnessNullEmbeddings ==
    /\ Racing /\ call.before.raw.none
    /\ \A i \in Threads : HasReturned(i)
    /\ \E i \in Threads :
          /\ ~HasRefreshed(i)
          /\ call.t[i].ret = <<LoneSnapshot[1], LoneSnapshot[2], NoneVal>>

\* both calls refresh and the later stamp is overwritten by the earlier
C31_WitnessOverwritten ==
    /\ Racing
    /\ \A i \in Threads : HasReturned(i) /\ HasRefreshed(i)
    /\ \E i \in Threads : call.t[i].at > menu_cache_timestamp

\* the user answers a clarification question: the session received holds an
\* unresolved line item, and the turn carries order text
ClarificationAnswered ==
    /\ Undecided /\ Returned
    /\ Sent("OrderQuery")
    /\ Unresolved(OrderSent) # {}
AskedAbout == OrderSent[First(Unresolved(OrderSent))]

\* C32: when the dialog has asked to clarify an unresolved line item and the
\* next turn answers with order text, the unresolved item is resolved or
\* replaced, so that the dialog moves past the question without a reset.
C32_ClarificationMakesProgress ==
    ClarificationAnswered =>
        \A i \in DOMAIN Order : Order[i] # AskedAbout

\* the answer is not parsed: the turn returns the order it received and asks
\* the same question again
C32_SameQuestionAgain ==
    ClarificationAnswered =>
        /\ ~Went("parse")
        /\ Order = OrderSent
        /\ AsksToClarify
        /\ response.message.item = AskedAbout.item_name

\* an unresolved line item leaves the session only with the whole order
C32_UnresolvedStaysUntilReset ==
    [][\A i \in Unresolved(Order) :
          \/ ~Has(session_attrs', "parsedOrder")
          \/ \E j \in DOMAIN OrderOf(session_attrs') :
                 OrderOf(session_attrs')[j] = Order[i]]_vars

\* the clarification question asked a second time for the same item
C32_WitnessAskedAgain ==
    /\ ClarificationAnswered
    /\ CatalogAtHand
    /\ AsksToClarify
    /\ Order = OrderSent

\* the number of (line item, required group) pairs of an order without
\* unresolved items that still miss a value
RECURSIVE MissingPairs(_)
MissingPairs(order) ==
    IF order = <<>> THEN 0
    ELSE Len(RequiredMissing(Head(order))) + MissingPairs(Tail(order))

\* an OptionChoice elicitation answered with a value, on an order whose items
\* are all resolved
ElicitationAnswered ==
    /\ Went("option") /\ CatalogAtHand /\ Returned
    /\ Unresolved(OrderSent) = {}
SharedKey(order) ==
    \E i, j \in DOMAIN order : i # j /\ Key(order[i]) = Key(order[j])

\* C33: on an order with all items resolved, two line items of one catalog
\* key included, every answered OptionChoice elicitation strictly reduces
\* the number of (line item, required group) pairs still missing, so option
\* elicitation ends after finitely many turns.
C33_AnsweredElicitationReducesMissing ==
    ElicitationAnswered =>
        /\ Went("validate")
        /\ MissingPairs(Found("validate")) < MissingPairs(OrderSent)

\* the number goes down by one when no two line items share a catalog key
C33_ReducesWhenKeysDistinct ==
    (ElicitationAnswered /\ ~SharedKey(OrderSent)) =>
        /\ Went("validate")
        /\ MissingPairs(Found("validate")) = MissingPairs(OrderSent) - 1

\* the second of two line items of one key is asked for the same group again
C33_WitnessStuck ==
    /\ ElicitationAnswered
    /\ SharedKey(OrderSent)
    /\ MissingPairs(Found("validate")) = MissingPairs(OrderSent)
    /\ response.slotToElicit = "OptionChoice"
    /\ session_attrs["optionToConfigure"] = inbound.event.session_attrs["optionToConfigure"]
    /\ session_attrs["currentItemToConfigure"] =
           inbound.event.session_attrs["currentItemToConfigure"]

\* an answered elicitation that completes the only line item
C33_WitnessDone ==
    /\ ElicitationAnswered
    /\ MissingPairs(OrderSent) = 1
    /\ MissingPairs(Found("validate")) = 0
    /\ response.slotToElicit # "OptionChoice"

\* an order without unresolved line items and without a resolved line item
\* that lacks a required group of its row
Validated(order) == Unresolved(order) = {} /\ Lacking(order) = {}
ConfirmAsked == DialogHook /\ response.type = "ConfirmIntent"

\* C34: every turn of handle_dialog that returns ConfirmIntent returns an
\* order without unresolved line items and without resolved line items that
\* lack a required option group, the line items the drink turn appended in
\* that turn included.
C34_ConfirmOnlyValidatedOrder ==
    ConfirmAsked => Validated(Order)

\* the order is validated in every such turn that appends no drink item
C34_ValidatedUnlessDrinkAppended ==
    (ConfirmAsked /\ (Went("drink") => Order = Found("drink"))) => Validated(Order)

\* the drink turn appends a line item of a row with required groups and the
\* turn asks to confirm
C34_WitnessDrinkUnvalidated ==
    /\ ConfirmAsked /\ Went("drink")
    /\ Validated(Found("drink"))
    /\ Len(Order) = Len(Found("drink")) + 1
    /\ Lacking(Order) = {Len(Order)}

\* the initial parse of the order text yields no items, the fallback flag
\* not being set
EmptyParse ==
    /\ Went("parse") /\ CatalogAtHand
    /\ inbound.env.parse = <<>>
    /\ ~Has(inbound.event.session_attrs, "is_fallback_order")

\* C35: when the initial parse yields no items and the fallback flag is not
\* set, the turn asks for the order again, it does not return Close(Failed),
\* and ConfirmIntent is never issued for an order with zero line items.
C35_EmptyParseAsksAgain ==
    /\ EmptyParse =>
          /\ response.type = "ElicitSlot"
          /\ response.slotToElicit = "OrderQuery"
    /\ ConfirmAsked => Order # <<>>

\* an empty parse is no system failure
C35_EmptyParseNotFailed ==
    EmptyParse => response.type # "Close"

\* an empty parse is stored as an order of no line items, and the turn asks
\* to confirm it unless a drink is processed in the same turn
C35_EmptyOrderConfirmed ==
    (EmptyParse /\ ~Went("drink")) =>
        /\ Has(session_attrs, "parsedOrder") /\ Order = <<>>
        /\ Has(session_attrs, "initialParseComplete")
        /\ Summarised

\* ConfirmIntent for an order with zero line items
C35_WitnessEmptyConfirmed ==
    /\ EmptyParse
    /\ ConfirmAsked
    /\ Order = <<>>
    /\ response.message.parts = <<>>

\* the pending-option markers of the session the host holds
ItemMarked == Has(session_attrs, "currentItemToConfigure")
OptionMarked == Has(session_attrs, "optionToConfigure")

\* C36: in every session state returned, after any sequence of turns,
\* currentItemToConfigure is present if and only if optionToConfigure is
\* present, and with them a serialized order (parsedOrder) is present; so
\* the option-apply step never fails on a missing key (it always hands the
\* order on to the validation pass).
C36_MarkersPairedAndAnchored ==
    /\ ItemMarked <=> OptionMarked
    /\ ItemMarked => Has(session_attrs, "parsedOrder")
    /\ Went("option") => Went("validate")

\* an option is applied and the validation pass of the same turn sets both
\* markers anew
C36_Witness ==
    /\ Went("option") /\ Returned
    /\ ItemMarked /\ OptionMarked
    /\ Has(session_attrs, "parsedOrder")
    /\ session_attrs["optionToConfigure"] # inbound.event.session_attrs["optionToConfigure"]

\* the items, lookup and embeddings of a cache are those of one bulk read
OneReadOf(cache) ==
    IF cache.raw.none THEN cache.lookup.none /\ cache.emb.none
    ELSE /\ cache.lookup = Some(build_menu_lookup(cache.raw.v))
         /\ cache.emb = Some(BuildEmbeddings(cache.raw.v))
         /\ ~EmbeddingsRaise(cache.raw.v)
\* the timestamp is the time of the call that stored the items
StampedByRead ==
    MenuCalled =>
        IF call.read /\ call.scan_ok
        THEN menu_cache_timestamp = call.t
        ELSE menu_cache_timestamp = call.before.ts
\* the resolver ran on the lookup and embeddings of a fresh cache
ResolvedFromCache == call.fn = "resolve"
KeyOfLookup ==
    /\ ~call.result.none
    /\ call.result.v.key # None => call.result.v.key \in DOMAIN call.lookup.v
\* the call read the store and failed while it built the embeddings
EmbeddingsFailed == MenuCalled /\ call.read /\ call.scan_ok /\ call.raised

\* C37: in every state reachable by get_menu calls, failing calls included,
\* the cached items, lookup table and embeddings list derive from the same
\* bulk read and the timestamp is that read's time; hence every key the
\* resolver returns from the cached embeddings is a key of the cached lookup.
C37_SnapshotOfOneRead ==
    /\ OneReadOf(Cache)
    /\ StampedByRead
    /\ ResolvedFromCache => KeyOfLookup

\* a call whose embeddings build does not fail, the failed bulk read
\* included, leaves a cache of one read when it found one, and every call
\* stamps the time of the read it stored
C37_OneReadUnlessEmbeddingsFail ==
    /\ (MenuCalled /\ OneReadOf(call.before) /\ ~EmbeddingsFailed) => OneReadOf(Cache)
    /\ StampedByRead

\* a refresh fails while it builds the embeddings: the new lookup is cached
\* with the embeddings of the read before
C37_WitnessMixed ==
    /\ EmbeddingsFailed
    /\ ~call.before.raw.none
    /\ menu_raw # call.before.raw
    /\ menu_lookup # call.before.lookup
    /\ menu_embeddings_cache = call.before.emb
    /\ menu_cache_timestamp = call.t

\* the resolver returns a key of the older embeddings that the cached lookup
\* does not hold
C37_WitnessKeyNotInLookup ==
    /\ ResolvedFromCache
    /\ ~call.result.none
    /\ call.result.v.key = <<W("coke")>>
    /\ call.result.v.key \notin DOMAIN call.lookup.v

\* on a cold start the lookup is cached with no embeddings list
C37_WitnessNoEmbeddings ==
    /\ ResolvedFromCache
    /\ call.result.none

\* fulfill_order reported the order as placed
Placed == FulfillmentClose /\ response.state = "Fulfilled"
ViaAllergyIntent == inbound.event.intent_name = "AllergyIntent"
ViaFulfillmentHook ==
    /\ inbound.event.intent_name = "OrderFood"
    /\ inbound.event.invocation_source = "FulfillmentCodeHook"

\* C38: fulfill_order returns Close(Fulfilled) with the order-placed message
\* only when the session holds an order with at least one line item, no
\* unresolved line item and no missing required option, however it is
\* reached (fulfillment hook, allergy intent) and after any turns.
C38_PlacedOnlyValidatedOrder ==
    Placed =>
        /\ Has(inbound.event.session_attrs, "parsedOrder")
        /\ OrderSent # <<>>
        /\ Validated(OrderSent)

\* the fulfillment hook reports the order as placed whatever the session holds
C38_HookAlwaysPlaces ==
    ViaFulfillmentHook => Placed

\* an order with an unresolved line item is reported as placed through the
\* allergy intent
C38_WitnessUnresolvedPlaced ==
    /\ Placed /\ ViaAllergyIntent
    /\ Unresolved(OrderSent) # {}
    /\ Len(response.message.parts) = Len(OrderSent)

\* an order of no line items, and one lacking a required option, reported
\* as placed
C38_WitnessEmptyPlaced ==
    /\ Placed
    /\ Has(inbound.event.session_attrs, "parsedOrder")
    /\ OrderSent = <<>>

C38_WitnessLackingPlaced ==
    /\ Placed /\ ViaFulfillmentHook
    /\ Unresolved(OrderSent) = {} /\ Lacking(OrderSent) # {}

\* handle_modification_request returned its failure response
ModificationFailed ==
    /\ response.type = "ElicitSlot"
    /\ response.slotToElicit = "ModificationRequest"
    /\ response.message.kind = "trouble with change"

\* the failure came from the dialog the changed order was handed to
FailedInDialog == ModificationFailed /\ trace # <<>>

\* C39: when handle_modification_request ends with its failure response,
\* the order document of the returned session attributes is the one received:
\* a modification that fails at any point, the validation pass that follows
\* included, applies none of its changes.
C39_FailedModificationAppliesNothing ==
    ModificationFailed =>
        /\ Has(session_attrs, "parsedOrder")
        /\ session_attrs["parsedOrder"] = inbound.event.session_attrs["parsedOrder"]

\* a modification that fails before line 411 (completion call, change list,
\* catalog read, resolution) returns the order document it received
C39_FailedBeforeStoreAppliesNothing ==
    (ModificationFailed /\ ~FailedInDialog) =>
        /\ Has(session_attrs, "parsedOrder")
        /\ session_attrs["parsedOrder"] = inbound.event.session_attrs["parsedOrder"]

\* the validation pass raised on a line item the catalog no longer holds and
\* the failure response carries the changed order
C39_WitnessChangeKept ==
    /\ FailedInDialog
    /\ Went("validate")
    /\ inbound.env.mod.ok
    /\ Order # OrderSent
    /\ Order = Found("validate")

\* the completion call failed on a session that holds an order
C39_WitnessFailedEarly ==
    /\ ModificationFailed
    /\ ~inbound.env.mod.ok
    /\ OrderSent # <<>>
    /\ Order = OrderSent

====
